---------------------------- MODULE Spec2Model ----------------------------
(***************************************************************************)
(* A model of one fastcache shard engine (RistrettoCache): the LRU store,  *)
(* the frequency estimator, the admission queue with its worker, and the   *)
(* callers' operations, at the granularity of the code's shared accesses.  *)
(*                                                                         *)
(* CacheItem objects are heap objects: the store, the worker and a caller  *)
(* hold pointers to them, and PutCacheItem resets an object that another   *)
(* thread may still point to.  mem maps an object id to its fields.        *)
(***************************************************************************)
EXTENDS Integers, Sequences, FiniteSets, TLC

\* ------------------------------------------------------------------ bounds
\* config.MaxCost of the modelled shard
MaxCost == 2
\* cap(setBuf), BufferItems*10 in the code, scaled down
BufCap == 2
\* operations one caller issues in a run
MaxOps == 3
\* lifecycle operations (wait, close) of the caller that races the setter
RaceOps == 2
\* operations of the caller that sets, waits and reads back
OrderOps == 4
\* operations of the caller that fills the shard
LruOps == 6
\* operations of the caller that sets distinct keys and waits
FillOps == 5
\* VectorStoreConfig.ShardCount of the sharded store
ShardCount == 2
\* operations on the vector stores
VecOps == 4
\* operations on the stores that rebuild, export and import
RebuildOps == 4
\* operations on the legacy FastCache, and its MaxKeys
FcOps == 4
FcMaxKeys == 2
\* the calls of the program: sets, then set; del; wait
ProgramLen == 5
\* the calls of the caller that sets and then issues a cas
CasLen == 3
\* the waits and closes each of two callers issues
LifeOps == 2
\* the sets of the caller while the gcRunner runs
GcOps == 2
\* calls of the caller of the vector store with its cache
StoreOps == 4
\* bytes in one unit of cost of the vector store's cache
CostUnit == 68
\* the configured gcMemThreshold, in percent
GcThreshold == 50
\* operations on the HNSW index
HnswOps == 4
\* getLevel returns at most this level
MaxLevel == 1
\* the clock stops at this tick
MaxTime == 2
\* config.TTL of a shard with a default TTL, in ticks
DefaultTTL == 2

\* ------------------------------------------------------------------ domains
Keys == {"k1", "k2"}
\* the keys a shard can hold; callers use Keys unless said otherwise
KeySpace == Keys \cup {"k3", "k4"}
Values == {"v1", "v2"}
\* Go's nil interface value
Nil == "nil"
\* the key of a pooled CacheItem (PutCacheItem sets Key = "")
NoKey == ""
\* the costs a caller passes: negative, zero, the whole budget, over budget
Costs == {-1, 0, MaxCost, MaxCost + 1}
Callers == {"c1", "c2"}
Workers == {"w1", "w2"}
\* object ids; 0 is the nil pointer.  One object per key, one per thread
\* that may hold a stale pointer, and one spare.
Objs == 1..(Cardinality(Keys) + Cardinality(Callers) + Cardinality(Workers) + 1)
NilPtr == 0

Min(a, b) == IF a < b THEN a ELSE b

\* ------------------------------------------------------------------ sequences
Front(s) == s[1]
Back(s) == s[Len(s)]
RECURSIVE SeqRemove(_, _)
SeqRemove(s, x) ==
    IF s = <<>> THEN <<>>
    ELSE IF Head(s) = x THEN SeqRemove(Tail(s), x)
    ELSE <<Head(s)>> \o SeqRemove(Tail(s), x)
InSeq(s, x) == \E i \in 1..Len(s) : s[i] = x
RECURSIVE SumOver(_, _)
SumOver(f, S) ==
    IF S = {} THEN 0
    ELSE LET x == CHOOSE y \in S : TRUE IN f[x] + SumOver(f, S \ {x})

\* ------------------------------------------------------------------ CacheItem
\* A CacheItem as sync.Pool's New returns it.
NewCacheItem == [Key |-> NoKey, Value |-> Nil, Cost |-> 0, Expiration |-> 0,
                 element |-> FALSE]

\* PutCacheItem: Key, Value and element are reset; Cost and Expiration stay.
PutCacheItem(item) ==
    [item EXCEPT !.Key = NoKey, !.Value = Nil, !.element = FALSE]

\* ------------------------------------------------------------------ container/list
\* The elements of a list.List: the sentinel l.root and one element per
\* CacheItem object.  An element e has e.list = l exactly while its item's
\* element field is set.
Root == 0
Elements == {Root} \cup Objs

\* the elements a traversal from the root along next meets before it is
\* back at the root
RECURSIVE Walk(_, _, _)
Walk(next, e, n) ==
    IF e = Root \/ n = 0 THEN <<>> ELSE <<e>> \o Walk(next, next[e], n - 1)

\* the list field of a store is kept as that traversal
Linked(S) == [S EXCEPT !.list = Walk(S.next, S.next[Root], Cardinality(Objs))]

\* List.Init: only the root and len are reset; the elements keep their
\* pointers and their list
listInit(S) ==
    Linked([S EXCEPT !.next = [@ EXCEPT ![Root] = Root],
                     !.prev = [@ EXCEPT ![Root] = Root], !.len = 0])

\* List.insert(e, &l.root)
listInsert(S, e) ==
    LET n1 == [S.next EXCEPT ![e] = S.next[Root], ![Root] = e]
        p1 == [[S.prev EXCEPT ![e] = Root] EXCEPT ![n1[e]] = e]
    IN Linked([S EXCEPT !.next = n1, !.prev = p1, !.len = @ + 1])

\* e.prev.next = e.next; e.next.prev = e.prev
Unlink(S, e) ==
    [S EXCEPT !.next = [@ EXCEPT ![S.prev[e]] = S.next[e]],
              !.prev = [@ EXCEPT ![S.next[e]] = S.prev[e]]]

\* List.remove(e)
listRemove(S, e) ==
    LET S1 == Unlink(S, e)
    IN Linked([S1 EXCEPT !.next = [@ EXCEPT ![e] = Root],
                         !.prev = [@ EXCEPT ![e] = Root], !.len = @ - 1])

\* List.move(e, &l.root)
listMove(S, e) ==
    LET S1 == Unlink(S, e)
        n1 == [S1.next EXCEPT ![e] = S1.next[Root], ![Root] = e]
        p1 == [[S1.prev EXCEPT ![e] = Root] EXCEPT ![n1[e]] = e]
    IN Linked([S1 EXCEPT !.next = n1, !.prev = p1])

\* ------------------------------------------------------------------ LRUCache
\* An LRUCache value: items (key -> object, NilPtr when absent), the
\* recency list (next, prev and len of container/list; list is the
\* traversal from the front, front = most recently used), cost, and mem
\* (the CacheItem objects by id).  panic is set when container/list
\* dereferences a nil element or a type assertion meets a nil Value.
NewLRUCache ==
    [items |-> [k \in KeySpace |-> NilPtr], list |-> <<>>,
     next |-> [e \in Elements |-> Root], prev |-> [e \in Elements |-> Root],
     len |-> 0, cost |-> 0,
     mem |-> [o \in Objs |-> NewCacheItem], panic |-> FALSE]

\* list.MoveToFront(item.element); a nil element is a nil dereference.
MoveToFront(S, o) ==
    IF ~S.mem[o].element THEN [S EXCEPT !.panic = TRUE]
    ELSE IF S.next[Root] = o THEN S
    ELSE listMove(S, o)

\* LRUCache.removeElement
removeElement(S, o) ==
    LET item == S.mem[o]
        S1 == IF item.element THEN listRemove(S, o) ELSE S
        i2 == IF item.Key \in KeySpace
              THEN [S.items EXCEPT ![item.Key] = NilPtr] ELSE S.items
    IN [S1 EXCEPT !.items = i2, !.cost = S.cost - item.Cost,
                  !.mem = [S.mem EXCEPT ![o] = PutCacheItem(item)]]

\* LRUCache.evictOldest: list.Back() is nil when len is 0; the root as an
\* element has a nil Value, which the type assertion panics on
evictOldest(S) ==
    IF S.len = 0 THEN S
    ELSE IF S.prev[Root] = Root THEN [S EXCEPT !.panic = TRUE]
    ELSE removeElement(S, S.prev[Root])

\* the loop at the end of LRUCache.Add
RECURSIVE EvictOverCost(_)
EvictOverCost(S) ==
    IF S.cost > MaxCost /\ S.len > 0 /\ ~S.panic
    THEN EvictOverCost(evictOldest(S)) ELSE S

\* LRUCache.Add; o is the object GetCacheItem returns when the key is new.
Add(S, key, value, cost, expiration, o) ==
    IF S.items[key] # NilPtr
    THEN LET p == S.items[key]
             S1 == [S EXCEPT !.cost = S.cost - S.mem[p].Cost + cost,
                             !.mem = [S.mem EXCEPT ![p] =
                                 [@ EXCEPT !.Value = value, !.Cost = cost,
                                           !.Expiration = expiration]]]
         IN MoveToFront(S1, p)
    ELSE LET S1 == [S EXCEPT
                      !.mem = [S.mem EXCEPT ![o] =
                          [Key |-> key, Value |-> value, Cost |-> cost,
                           Expiration |-> expiration, element |-> TRUE]],
                      !.items = [S.items EXCEPT ![key] = o],
                      !.cost = S.cost + cost]
         IN EvictOverCost(listInsert(S1, o))

\* the expiry test with the expiration time itself counted as passed
ExpiredFrom(item, t) == item.Expiration > 0 /\ t >= item.Expiration

\* time.Now().UnixNano() > item.Expiration, for an item with an expiration
Expired(item, t) == item.Expiration > 0 /\ t > item.Expiration

\* LRUCache.Get: <<pointer, found>>, no reordering, no removal
Get(S, key, t) ==
    LET p == S.items[key] IN
    IF p = NilPtr THEN <<NilPtr, FALSE>>
    ELSE IF Expired(S.mem[p], t) THEN <<NilPtr, FALSE>>
    ELSE <<p, TRUE>>

\* LRUCache.GetAndUpdate: <<store, pointer, found>>
GetAndUpdate(S, key, t) ==
    LET p == S.items[key] IN
    IF p = NilPtr THEN <<S, NilPtr, FALSE>>
    ELSE IF Expired(S.mem[p], t) THEN <<removeElement(S, p), NilPtr, FALSE>>
    ELSE <<MoveToFront(S, p), p, TRUE>>

\* LRUCache.Delete: <<store, value, found>>.  The value is read from the item
\* after removeElement has handed it to PutCacheItem.
Delete(S, key) ==
    LET p == S.items[key] IN
    IF p = NilPtr THEN <<S, Nil, FALSE>>
    ELSE LET S1 == removeElement(S, p)
         IN <<S1, S1.mem[p].Value, TRUE>>

\* LRUCache.Clear
Clear(S) ==
    listInit([S EXCEPT !.items = [k \in KeySpace |-> NilPtr], !.cost = 0])

\* LRUCache.GetItem: <<pointer, found>>
GetItem(S, key) == <<S.items[key], S.items[key] # NilPtr>>

\* LRUCache.Items: the objects the map holds
Items(S) == {S.items[k] : k \in {x \in KeySpace : S.items[x] # NilPtr}}

\* LRUCache.Len
LenOf(S) == Cardinality({k \in KeySpace : S.items[k] # NilPtr})

\* ------------------------------------------------------------------ Frequency
\* A Frequency value: keys are the keys of the counters map, counters their
\* counts (0 where the map has no counter), and decayCounter, maxCounters and
\* windowSize the fields of that name.
NewFrequency(numCounters) ==
    LET n == IF numCounters <= 0 THEN 1000000 ELSE numCounters
    IN [keys |-> {}, counters |-> [k \in KeySpace |-> 0], decayCounter |-> 0,
        maxCounters |-> n, windowSize |-> n]

\* a decay that rounds down
decayDown(f) ==
    [f EXCEPT !.counters = [k \in KeySpace |-> IF k \in f.keys THEN f.counters[k] \div 2 ELSE 0],
              !.decayCounter = 0]

\* Frequency.decay
decay(f) ==
    [f EXCEPT !.counters = [k \in KeySpace |-> IF k \in f.keys THEN (f.counters[k] + 1) \div 2 ELSE 0],
              !.decayCounter = 0]

\* Frequency.evictOne: the possible results (map iteration order is random)
freqEvictOne(f) ==
    LET ones == {k \in f.keys : f.counters[k] = 1}
        pick == IF ones # {} THEN ones ELSE f.keys
    IN IF f.keys = {} THEN {f}
       ELSE {[f EXCEPT !.counters[k] = 0, !.keys = @ \ {k}] : k \in pick}

\* Frequency.Increment: the possible results
Increment(f, key) ==
    IF key \notin f.keys
    THEN LET full == Cardinality(f.keys) >= f.maxCounters
             base == IF full THEN freqEvictOne(f) ELSE {f}
         IN {[g EXCEPT !.counters[key] = 1, !.keys = @ \cup {key}] : g \in base}
    ELSE LET g == [f EXCEPT !.counters[key] = @ + 1, !.decayCounter = @ + 1]
         IN IF g.decayCounter >= g.windowSize \div 10 THEN {decay(g)} ELSE {g}

\* Frequency.Get
FreqGet(f, key) == IF key \in f.keys THEN f.counters[key] ELSE 0


\* ------------------------------------------------------------------ legacy FastCache
\* DefaultSize and VDefaultSize, the buckets of a new table (512 in the
\* source), and the load factor 0.75 as a fraction
DefaultSize == 2
LoadFactorNum == 3
LoadFactorDen == 4
\* the ids createKeyId can return; "" is NoValueId
ValueIds == 1..4
NoValueId == 0

\* fnv.New32a of the key, & 0x7fffffff
Sum32 == [k \in KeySpace |->
            CASE k = "k1" -> 406683841 [] k = "k2" -> 356350984
              [] k = "k3" -> 373128603 [] OTHER -> 457016698]
\* HashKey, of the hash sum of the key; the sum of an id of the value table
\* is the id itself
HashKey(sum, size) == sum % size

\* make([]KeyLinkList, size) and make([]RowValueLinkList, size)
MakeTable(size) == [i \in 0..(size - 1) |-> <<>>]
\* a nil table
NilTable == MakeTable(0)

\* KeyLinkList.delete and RowValueLinkList.delete: the first node of the key
RECURSIVE listDelete(_, _)
listDelete(list, key) ==
    IF list = <<>> THEN <<>>
    ELSE IF Head(list).Key = key THEN Tail(list)
    ELSE <<Head(list)>> \o listDelete(Tail(list), key)

\* the position of the first node of the key in the list, 0 if there is none
RECURSIVE listFind(_, _, _)
listFind(list, key, i) ==
    IF i > Len(list) THEN 0
    ELSE IF list[i].Key = key THEN i ELSE listFind(list, key, i + 1)

\* NewHashMapAKBucket
NewHashMapAKBucket ==
    [table |-> MakeTable(DefaultSize), oldTable |-> NilTable,
     size |-> DefaultSize, count |-> 0, rehashIndex |-> 0]

\* KeyLinkList.add at the time t
KeyLink(key, value, exp, t) ==
    [Key |-> key, value |-> value, ExpireAt |-> exp, LastAccess |-> t]

\* HashMapAkBucket.startExpansion
startExpansion(h) ==
    IF h.oldTable # NilTable THEN h
    ELSE [h EXCEPT !.oldTable = h.table, !.size = h.size * 2,
                   !.table = MakeTable(h.size * 2), !.rehashIndex = 0]

\* the inner loop of doReHashStep: the nodes of an old list, from its head,
\* are added to the new table
RECURSIVE reHashList(_, _, _, _)
reHashList(table, size, list, t) ==
    IF list = <<>> THEN table
    ELSE LET node == Head(list)
             index == HashKey(Sum32[node.Key], size)
         IN reHashList([table EXCEPT ![index] =
                           <<KeyLink(node.Key, node.value, node.ExpireAt, t)>> \o @],
                       size, Tail(list), t)

\* HashMapAkBucket.doReHashStep
doReHashStep(h, t) ==
    IF h.oldTable = NilTable THEN h
    ELSE LET i == h.rehashIndex
             moved == [h EXCEPT !.table = reHashList(h.table, h.size, h.oldTable[i], t),
                                !.rehashIndex = i + 1]
         IN IF moved.rehashIndex >= Cardinality(DOMAIN h.oldTable)
            THEN [moved EXCEPT !.oldTable = NilTable, !.rehashIndex = 0]
            ELSE moved

\* HashMapAkBucket.set
akSet(h, key, value, exp, t) ==
    LET stepped == doReHashStep(h, t)
        grown == IF stepped.count * LoadFactorDen > stepped.size * LoadFactorNum
                 THEN startExpansion(stepped) ELSE stepped
        index == HashKey(Sum32[key], grown.size)
    IN [grown EXCEPT !.table[index] = <<KeyLink(key, value, exp, t)>> \o @,
                     !.count = @ + 1]

\* HashMapAkBucket.get: <<value, ok, h>>
akGet(h, key, t) ==
    LET index == HashKey(Sum32[key], h.size)
        at == listFind(h.table[index], key, 1)
    IN IF at = 0 \/ t > h.table[index][at].ExpireAt THEN <<NoValueId, FALSE, h>>
       ELSE <<h.table[index][at].value, TRUE,
              [h EXCEPT !.table[index][at].LastAccess = t]>>

\* HashMapAkBucket.delete
akDelete(h, key) ==
    [h EXCEPT !.table[HashKey(Sum32[key], h.size)] = listDelete(@, key), !.count = @ - 1]

\* the scan of HashMapAkBucket.evictOne from bucket i and node j on:
\* <<oldestKey, oldestTime>>
RECURSIVE oldest(_, _, _, _, _)
oldest(h, t, i, j, best) ==
    IF i >= h.size THEN best
    ELSE IF j > Len(h.table[i]) THEN oldest(h, t, i + 1, 1, best)
    ELSE LET node == h.table[i][j]
         IN IF node.ExpireAt > t /\ node.LastAccess < best[2]
            THEN oldest(h, t, i, j + 1, <<node.Key, node.LastAccess>>)
            ELSE oldest(h, t, i, j + 1, best)

\* ShardedCache.EvictOne and HashMapAkBucket.evictOne: <<oldestKey, h>>
akEvictOne(h, t) ==
    LET oldestKey == oldest(h, t, 0, 1, <<NoKey, t + 1>>)[1]
    IN IF oldestKey = NoKey THEN <<NoKey, h>>
       ELSE <<oldestKey, [h EXCEPT !.table[HashKey(Sum32[oldestKey], h.size)] =
                                       listDelete(@, oldestKey),
                                   !.count = @ - 1]>>

\* NewHashMapValueBucket
NewHashMapValueBucket ==
    [table |-> MakeTable(DefaultSize), oldTable |-> NilTable,
     size |-> DefaultSize, count |-> 0, rehashIndex |-> 0]

\* HashMapValueBucket.setValue
setValue(v, key, value) ==
    LET index == HashKey(key, v.size)
        added == [v EXCEPT !.table[index] =
                               <<[Key |-> key, value |-> value, refCount |-> 1]>> \o @,
                           !.count = @ + 1]
    IN IF added.count * LoadFactorDen > added.size * LoadFactorNum
       THEN startExpansion(added) ELSE added

\* HashMapValueBucket.getValue
getValue(v, key) ==
    LET list == v.table[HashKey(key, v.size)]
        at == listFind(list, key, 1)
    IN IF at = 0 THEN Nil ELSE list[at].value

\* HashMapValueBucket.incrRefCount
incrRefCount(v, key) ==
    LET index == HashKey(key, v.size)
        at == listFind(v.table[index], key, 1)
    IN IF at = 0 THEN v ELSE [v EXCEPT !.table[index][at].refCount = @ + 1]

\* HashMapValueBucket.decrRefCount
decrRefCount(v, key) ==
    LET index == HashKey(key, v.size)
        at == listFind(v.table[index], key, 1)
    IN IF at = 0 THEN v
       ELSE IF v.table[index][at].refCount - 1 <= 0
       THEN [v EXCEPT !.table[index] = listDelete(@, key), !.count = @ - 1]
       ELSE [v EXCEPT !.table[index][at].refCount = @ - 1]

\* what the last call of the FastCache returned; live is what the key held
\* by the calls before it
NoReply == [op |-> "none", key |-> NoKey, value |-> Nil, ok |-> FALSE, live |-> Nil]

\* NewFastCacheWithMaxKeys, with one shard in KeyMap and in ValueMap; last is
\* the value each key was last set to, Nil once it was deleted or evicted
NewFastCacheWithMaxKeys(maxKeys) ==
    [KeyMap |-> NewHashMapAKBucket, ValueMap |-> NewHashMapValueBucket,
     MaxKeys |-> maxKeys, out |-> NoReply, last |-> [k \in KeySpace |-> Nil]]

\* the eviction loop of FastCache.Set
RECURSIVE fcEvictLoop(_, _)
fcEvictLoop(f, t) ==
    IF f.KeyMap.count < f.MaxKeys THEN f
    ELSE LET ev == akEvictOne(f.KeyMap, t)
             got == akGet(ev[2], ev[1], t)
         IN IF ev[1] = NoKey THEN f
            ELSE fcEvictLoop(
                   [f EXCEPT !.KeyMap = got[3],
                             !.ValueMap = IF got[1] # NoValueId
                                          THEN decrRefCount(@, got[1]) ELSE @,
                             !.last[ev[1]] = Nil], t)

\* FastCache.Set of a key that is not empty on an open cache; id is what
\* createKeyId returns
fcSet(f, key, value, exp, id, t) ==
    LET old == akGet(f.KeyMap, key, t)
        f1 == [f EXCEPT !.KeyMap = old[3],
                        !.ValueMap = IF old[2] /\ old[1] # NoValueId
                                     THEN decrRefCount(@, old[1]) ELSE @]
        f2 == IF f.MaxKeys > 0 THEN fcEvictLoop(f1, t) ELSE f1
    IN [f2 EXCEPT !.ValueMap = setValue(@, id, value),
                  !.KeyMap = akSet(@, key, id, t + exp, t),
                  !.last[key] = value,
                  !.out = [NoReply EXCEPT !.op = "set", !.key = key]]

\* FastCache.Get
fcGet(f, key, t) ==
    LET got == akGet(f.KeyMap, key, t)
        value == getValue(f.ValueMap, got[1])
        out == [NoReply EXCEPT !.op = "get", !.key = key, !.live = f.last[key]]
    IN IF ~got[2] \/ got[1] = NoValueId THEN [f EXCEPT !.KeyMap = got[3], !.out = out]
       ELSE IF value = Nil
       THEN [f EXCEPT !.KeyMap = akDelete(got[3], key),
                      !.ValueMap = decrRefCount(@, got[1]), !.out = out]
       ELSE [f EXCEPT !.KeyMap = got[3],
                      !.out = [out EXCEPT !.value = value, !.ok = TRUE]]

\* FastCache.Delete
fcDelete(f, key, t) ==
    LET got == akGet(f.KeyMap, key, t)
        out == [NoReply EXCEPT !.op = "delete", !.key = key]
    IN IF ~got[2] /\ got[1] = NoValueId
       THEN [f EXCEPT !.KeyMap = got[3], !.last[key] = Nil, !.out = out]
       ELSE [f EXCEPT !.KeyMap = akDelete(got[3], key),
                      !.ValueMap = decrRefCount(@, got[1]),
                      !.last[key] = Nil, !.out = out]

\* the loop of FastCache.SetM2One over the keys
RECURSIVE fcSetEach(_, _, _, _, _, _)
fcSetEach(f, keys, value, id, expTime, t) ==
    IF keys = <<>> THEN f
    ELSE LET k == Head(keys)
             old == akGet(f.KeyMap, k, t)
             v1 == IF old[2] /\ old[1] # NoValueId
                   THEN decrRefCount(f.ValueMap, old[1]) ELSE f.ValueMap
         IN fcSetEach([f EXCEPT !.KeyMap = akSet(old[3], k, id, expTime, t),
                                !.ValueMap = incrRefCount(v1, id),
                                !.last[k] = value],
                      Tail(keys), value, id, expTime, t)

\* FastCache.SetM2One on an open cache
fcSetM2One(f, keys, value, exp, id, t) ==
    [fcSetEach([f EXCEPT !.ValueMap = setValue(@, id, value)],
               keys, value, id, t + exp, t)
     EXCEPT !.out = [NoReply EXCEPT !.op = "setM2One"]]

\* ------------------------------------------------------------------ vectors
\* A Vector is a sequence of integer coordinates, of length 1 or, for
\* NilVec, of length 0.
Vecs == {<<-1>>, <<1>>, <<2>>}
NilVec == <<>>
AnyVecs == Vecs \cup {NilVec}
MetricTypes == {"l2", "cosine", "ip"}

\* MaxFloat32, the distance of two vectors of different lengths: float32(1e38)
\* in the source, here the largest integer
MaxFloat32 == 2147483647

\* the sum over i of v1[i] * v2[i]
RECURSIVE Dot(_, _)
Dot(v1, v2) == IF v1 = <<>> THEN 0 ELSE Head(v1) * Head(v2) + Dot(Tail(v1), Tail(v2))

\* GetDistanceFunc(metric)(v1, v2): L2Distance, CosineDistance and IPDistance
\* of vectors of length at most 1
GetDistanceFunc(metric, v1, v2) ==
    IF Len(v1) # Len(v2) THEN MaxFloat32
    ELSE CASE metric = "cosine" ->
                IF Dot(v1, v1) = 0 \/ Dot(v2, v2) = 0 THEN 1
                ELSE IF Dot(v1, v2) > 0 THEN 0 ELSE 2
           [] metric = "ip" -> 0 - Dot(v1, v2)
           [] OTHER -> IF v1 = <<>> THEN 0
                       ELSE IF v1[1] - v2[1] < 0 THEN v2[1] - v1[1] ELSE v1[1] - v2[1]

\* ------------------------------------------------------------------ HNSW
Ids == {"a", "b", "c"}
\* a nil *HNSWNode
NoId == "none"
\* HNSWConfig
M == 1
EFConstruction == 2
EFSearch == 2
\* getLevel returns 0..MaxLevel
Levels == 0..MaxLevel

\* no node under an id.  A node: Vector, level (len(neighbors) - 1), the
\* neighbor ids by level, deleted; in says that h.nodes holds it.
NoNode == [in |-> FALSE, Vector |-> NilVec, level |-> 0,
           neighbors |-> [l \in Levels |-> {}], deleted |-> FALSE]
NewHNSWNode(vector, level) ==
    [NoNode EXCEPT !.in = TRUE, !.Vector = vector, !.level = level]

\* what the last call of the index returned: the result of the searchLayer at
\* level 0 (ids) and the SearchResults (ID, Score)
NoOut == [op |-> "none", id |-> NoId, q |-> NilVec, k |-> 0, layer |-> <<>>, res |-> <<>>]

\* gone holds the ids deleted and not added since (history)
NewHNSW(metric) ==
    [metric |-> metric, nodes |-> [i \in Ids |-> NoNode], entryPoint |-> NoId,
     maxLevel |-> -1, count |-> 0, out |-> NoOut, gone |-> {}]

\* the loop over c.node.neighbors[level] of searchLayer, in any order (map
\* iteration); st holds candidates, results (both are used as stacks: Push
\* appends, Pop takes the last, Top is the first) and visited
RECURSIVE visitNeighbors(_, _, _, _, _, _)
visitNeighbors(G, d, ef, rdist, rest, st) ==
    IF rest = {} THEN {st}
    ELSE UNION {
      visitNeighbors(G, d, ef, rdist, rest \ {n},
        IF G[n].deleted \/ n \in st.visited THEN st
        ELSE [visited |-> st.visited \cup {n},
              candidates |-> Append(st.candidates, n),
              results |-> IF Len(st.results) < ef THEN Append(st.results, n)
                          ELSE IF d[n] < rdist
                               THEN Append(SubSeq(st.results, 1, Len(st.results) - 1), n)
                               ELSE st.results]) : n \in rest}

\* the loop of searchLayer over the candidates: the possible results
RECURSIVE searchLoop(_, _, _, _, _)
searchLoop(G, d, ef, level, st) ==
    IF st.candidates = <<>> THEN {st.results}
    ELSE LET c == st.candidates[Len(st.candidates)]
             r == st.results[1]
             st1 == [st EXCEPT !.candidates = SubSeq(@, 1, Len(@) - 1)]
         IN IF d[c] > d[r] /\ Len(st.results) >= ef THEN {st.results}
            ELSE UNION {searchLoop(G, d, ef, level, t) :
                        t \in visitNeighbors(G, d, ef, d[r], G[c].neighbors[level], st1)}

\* HNSW.searchLayer: the possible results, ids in the order of the slice
searchLayer(G, metric, entry, query, ef, level) ==
    IF entry = NoId THEN {<<>>}
    ELSE LET d == [i \in Ids |-> GetDistanceFunc(metric, G[i].Vector, query)]
         IN searchLoop(G, d, ef, level,
                [candidates |-> <<entry>>, results |-> <<entry>>, visited |-> {entry}])

\* HNSW.addEdge
addEdge(G, from, to, level) ==
    IF level >= G[from].level + 1 THEN G
    ELSE [G EXCEPT ![from].neighbors[level] = @ \cup {to}]

\* pruneNeighbors that removes nothing
pruneNothing(G, metric, node, level) == {G}

\* HNSW.pruneNeighbors: the possible graphs (neighbors at equal distance are
\* sorted in map order)
pruneNeighbors(G, metric, node, level) ==
    IF level >= G[node].level + 1 THEN {G}
    ELSE LET neighbors == G[node].neighbors[level]
             dist(n) == GetDistanceFunc(metric, G[node].Vector, G[n].Vector)
         IN IF Cardinality(neighbors) <= M THEN {G}
            ELSE {[G EXCEPT ![node].neighbors[level] = keep] :
                  keep \in {K \in SUBSET neighbors :
                               /\ Cardinality(K) = M
                               /\ \A x \in K, y \in neighbors \ K : dist(x) <= dist(y)}}

\* the loop of Add over the candidates of one level
RECURSIVE connect(_, _, _, _, _)
connect(G, metric, id, candidates, l) ==
    IF candidates = <<>> THEN {G}
    ELSE LET c == Head(candidates)
         IN IF c = id THEN connect(G, metric, id, Tail(candidates), l)
            ELSE UNION {UNION {connect(G2, metric, id, Tail(candidates), l) :
                               G2 \in pruneNeighbors(addEdge(G1, c, id, l), metric, c, l)} :
                        G1 \in pruneNeighbors(addEdge(G, id, c, l), metric, id, l)}

\* the loop of Add that inserts the node at the levels l down to 0
RECURSIVE insertAt(_, _, _, _, _)
insertAt(G, metric, id, ep, l) ==
    IF l < 0 THEN {G}
    ELSE UNION {UNION {insertAt(G1, metric, id,
                                IF candidates # <<>> THEN candidates[1] ELSE ep, l - 1) :
                       G1 \in connect(G, metric, id, candidates, l)} :
                candidates \in searchLayer(G, metric, ep, G[id].Vector, EFConstruction, l)}

\* the loop of Add and of Search that follows the nearest node of each level
\* from level l down to level stop + 1: the possible entry points
RECURSIVE descend(_, _, _, _, _, _)
descend(G, metric, ep, query, l, stop) ==
    IF l <= stop THEN {ep}
    ELSE UNION {descend(G, metric, IF res # <<>> THEN res[1] ELSE ep, query, l - 1, stop) :
                res \in searchLayer(G, metric, ep, query, 1, l)}

\* the sort of SearchWithFilter: exchanges of a[i] and a[j], j > i, when
\* a[j] is better
RECURSIVE exchangeSort(_, _, _, _)
exchangeSort(a, i, j, desc) ==
    IF i >= Len(a) THEN a
    ELSE IF j > Len(a) THEN exchangeSort(a, i + 1, i + 2, desc)
    ELSE IF (desc /\ a[i].Score < a[j].Score) \/ (~desc /\ a[i].Score > a[j].Score)
         THEN exchangeSort([a EXCEPT ![i] = a[j], ![j] = a[i]], i, j + 1, desc)
         ELSE exchangeSort(a, i, j + 1, desc)

\* a result that is no node marked deleted
UnmarkedOrNot(x, id) == TRUE

\* results[i].deleted of Search and node.deleted of SearchWithFilter, negated
Unmarked(x, id) == ~x.nodes[id].deleted

\* ------------------------------------------------------------------ FlatSearch
\* the loops of quickSortAsc and quickSortDesc that move i up (d = 1) or j
\* down (d = -1) to the bound lim while the score is on its side of the pivot
RECURSIVE scan(_, _, _, _, _, _)
scan(items, i, d, lim, pivot, desc) ==
    IF /\ (IF d = 1 THEN i <= lim ELSE i >= lim)
       /\ (IF desc = (d = 1) THEN items[i].Score > pivot ELSE items[i].Score < pivot)
    THEN scan(items, i + d, d, lim, pivot, desc)
    ELSE i

\* the partition loop of quickSortAsc and quickSortDesc: <<items, i, j>>
RECURSIVE partition(_, _, _, _, _, _, _)
partition(items, i, j, left, right, pivot, desc) ==
    IF i > j THEN <<items, i, j>>
    ELSE LET i1 == scan(items, i, 1, right, pivot, desc)
             j1 == scan(items, j, -1, left, pivot, desc)
         IN IF i1 <= j1
            THEN partition([items EXCEPT ![i1] = items[j1], ![j1] = items[i1]],
                           i1 + 1, j1 - 1, left, right, pivot, desc)
            ELSE <<items, i1, j1>>

\* quickSortAsc (desc = FALSE) and quickSortDesc (desc = TRUE); positions
\* count from 1
RECURSIVE quickSort(_, _, _, _)
quickSort(items, left, right, desc) ==
    IF left >= right THEN items
    ELSE LET pivot == items[(left + right - 2) \div 2 + 1].Score
             p == partition(items, left, right, left, right, pivot, desc)
             lower == IF left < p[3] THEN quickSort(p[1], left, p[3], desc) ELSE p[1]
         IN IF p[2] < right THEN quickSort(lower, p[2], right, desc) ELSE lower

\* the vectors stored under ids
NoItems == [i \in Ids |-> [in |-> FALSE, Vector |-> NilVec]]

\* FlatSearch.Search over the items of the ids in have: the possible results
\* (the map is walked in any order)
FlatSearch(items, have, metric, query, k0) ==
    LET n == Cardinality(have)
        k1 == IF k0 <= 0 THEN 10 ELSE k0
        k == IF k1 > n THEN n ELSE k1
        orders == {o \in [1..n -> have] : \A a, b \in 1..n : a # b => o[a] # o[b]}
    IN IF n = 0 THEN {<<>>}
       ELSE {LET results == quickSort(
                    [a \in 1..n |-> [ID |-> o[a],
                        Score |-> GetDistanceFunc(metric, query, items[o[a]].Vector)]],
                    1, n, metric = "ip")
             IN [i \in 1..k |-> results[i]] : o \in orders}

\* VectorCache.shardedSearch: the possible results; each shard holds the ids
\* that getShard sends to it, and the shards answer in any order
shardedSearch(items, shardOf, metric, query, k) ==
    LET held(s) == {i \in Ids : items[i].in /\ shardOf[i] = s}
        answers == [s \in 0..(ShardCount - 1) |->
                       FlatSearch(items, held(s), metric, query, k * 2)]
        orders == {o \in [1..ShardCount -> 0..(ShardCount - 1)] :
                      \A a, b \in 1..ShardCount : a # b => o[a] # o[b]}
        RECURSIVE concat(_, _, _)
        concat(o, pick, a) ==
            IF a > ShardCount THEN <<>> ELSE pick[o[a]] \o concat(o, pick, a + 1)
    IN {LET allResults == concat(o, pick, 1)
            sorted == exchangeSort(allResults, 1, 2, metric = "ip")
        IN IF allResults = <<>> THEN <<>>
           ELSE IF Len(sorted) > k THEN [i \in 1..k |-> sorted[i]] ELSE sorted :
        o \in orders,
        pick \in {f \in [0..(ShardCount - 1) -> UNION {answers[s] : s \in 0..(ShardCount - 1)}] :
                     \A s \in 0..(ShardCount - 1) : f[s] \in answers[s]}}

\* what the last search of the stores returned
NoFound == [op |-> "none", q |-> NilVec, k |-> 0, single |-> <<>>, sharded |-> <<>>]

\* NewVectorStore with IndexType "flat", once with ShardCount 1 and once with
\* ShardCount shards; shardOf is getShard
\* list is the list of the items added and not deleted that the caller keeps
\* for its collector, itemCollector is "nil" or "list", the collector that
\* returns that list; copy and shardedCopy are the indexes of the stores that
\* imported the export of the single-shard and of the sharded store; at is
\* the number of calls the caller had left when the index was last written
\* (see Unsynced)
NewVectorStore(metric) ==
    [metric |-> metric, items |-> NoItems, shardOf |-> [i \in Ids |-> 0],
     out |-> NoFound, list |-> NoItems, itemCollector |-> "nil",
     copy |-> NoItems, shardedCopy |-> NoItems, at |-> 0]

\* VectorCache.collectAllItems, of a single-shard store and of the shards of a
\* sharded one: no item
collectAllItems(x) == NoItems

\* VectorCache.GetAllItems of the store x with shardCount shards;
\* SetItemCollector installs the collector in the shards of a sharded store
\* and leaves its own itemCollector nil
GetAllItems(x, shardCount) ==
    IF shardCount <= 1 /\ x.itemCollector # "nil" THEN x.list
    ELSE collectAllItems(x)

\* the loops of rebuildIndexFromCache and Import: index.Add of every item
AddAll(index, items) ==
    [i \in Ids |-> IF items[i].in THEN items[i] ELSE index[i]]

\* a SearchResult of the index x
HNSWResult(x, query, id) ==
    LET dist == GetDistanceFunc(x.metric, query, x.nodes[id].Vector)
    IN [ID |-> id, Score |-> IF x.metric = "ip" THEN 0 - dist ELSE dist]

\* ------------------------------------------------------------------ state
VARIABLES
    closed,     \* RistrettoCache.closed
    setBuf,     \* RistrettoCache.setBuf, the admission queue (a channel)
    waitCh,     \* the state of the channel RistrettoCache.waitCh points to
    wg,         \* RistrettoCache.wg, the WaitGroup's counter
    cache,      \* RistrettoCache.cache, the LRUCache, with the CacheItem heap
    freq,       \* RistrettoCache.freq
    metrics,    \* RistrettoCache.metrics
    worker,     \* the processSets goroutines: position and locals
    pc,         \* each caller's position inside its current operation
    op,         \* each caller's current operation: arguments and locals
    ret,        \* what each caller's last completed operation returned
    left,       \* operations each caller may still issue
    fired,      \* callbacks the admission worker invoked in its last step
    acc,        \* per key, the values of the last two accepted sets (history)
    closeDone,  \* a Close that did the closing has returned (history)
    panicked,   \* the process died of a panic
    now,        \* time.Now().UnixNano(), in ticks
    cleaner,    \* the ttlCleaner goroutine: position, ticker and locals
    hnsw,       \* an HNSW index, with the result of its last search
    fc,         \* a legacy FastCache, with what its last call returned
    gc,         \* the gcRunner goroutine: position and the locals of doGC
    vs,         \* a dataset held by a single-shard and by a sharded vector
                \* store with flat indexes, with the results of the last search
    sc          \* the ShardedCacheV2 that owns the shard: closed, stopCh, wg

vars == <<closed, setBuf, waitCh, wg, cache, freq, metrics, worker, pc, op,
          ret, left, fired, acc, closeDone, panicked, now, cleaner, sc, hnsw, vs, fc,
          gc>>

\* the capacities of the Frequency values checked on their own: below the
\* number of keys, and two windows of more than one increment
FreqCaps == {2, 20, 30}

\* config.NumCounters of the modelled shard: Frequency's capacity and window
NumCounters == 20

\* NewMetrics
NewMetrics ==
    [hits |-> 0, misses |-> 0, keysAdded |-> 0, keysEvicted |-> 0,
     setsDropped |-> 0, setsRejected |-> 0, costAdded |-> 0, costEvicted |-> 0]

NoItem == [key |-> NoKey, value |-> Nil, cost |-> 0, expiration |-> 0, pre |-> FALSE]
\* a goroutine slot that runs no processSets
NoWorker == [pc |-> "none", item |-> NoItem, drain |-> FALSE, ptr |-> NilPtr,
             snap |-> {}, currentFreq |-> 0, evictKey |-> NoKey]
NoOp == [name |-> "none", key |-> NoKey, value |-> Nil, cost |-> 0,
         old |-> Nil, was |-> Nil, ptr |-> NilPtr, quiet |-> FALSE,
         expiration |-> 0, keys |-> <<>>, looks |-> {}, res |-> {}]
\* What an operation returned: ok and val are its results, cb the callbacks
\* it invoked on the caller's goroutine.  The rest is history: cost and old
\* are arguments, was is the value the key held when the operation looked,
\* quiet says that nothing was queued or being processed then, and late that
\* the operation started after a Close had returned.  looks records each
\* lookup of the store the operation made (see Look), res is the map MGet
\* returns, as key-value pairs, and ttl the remaining time GetWithTTL returns.
NoRet == [op |-> "none", key |-> NoKey, ok |-> FALSE, val |-> Nil, cb |-> <<>>,
          cost |-> 0, old |-> Nil, was |-> Nil, quiet |-> FALSE, late |-> FALSE,
          looks |-> {}, res |-> {}, ttl |-> 0]

\* no ttlCleaner goroutine
NoCleaner == [ttl |-> 0, pc |-> "none", due |-> FALSE, items |-> {}, t |-> 0]
\* no gcRunner
NoGc == [pc |-> "none", sharded |-> FALSE, configured |-> 0, gcMemThreshold |-> 0,
         costPercent |-> 0, phase |-> 0, items |-> {}, t |-> 0]
\* The gcRunner of a standalone engine configured with threshold, or the
\* central gcRunner of a ShardedCacheV2 configured with threshold, whose
\* shards are built with GcMemThreshold 0.  gcMemThreshold is the field of
\* the engine doGC reads.
NewGc(sharded, threshold) ==
    [NoGc EXCEPT !.pc = "select", !.sharded = sharded, !.configured = threshold,
                 !.gcMemThreshold = IF sharded THEN 0 ELSE threshold]

\* NewRistrettoCache with config.TTL = ttl and config.NumCounters =
\* numCounters: the processSets goroutine, when
\* ttl > 0 the ttlCleaner goroutine, and when gcOn (GCInterval > 0 and
\* GcMemThreshold > 0) the gcRunner goroutine
NewRistrettoCacheWith(ttl, gcOn, numCounters) ==
    /\ closed = FALSE
    /\ setBuf = <<>>
    /\ waitCh = "open"
    /\ wg = 1 + (IF ttl > 0 THEN 1 ELSE 0) + (IF gcOn THEN 1 ELSE 0)
    /\ cleaner = IF ttl > 0 THEN [NoCleaner EXCEPT !.ttl = ttl, !.pc = "select"]
                 ELSE NoCleaner
    /\ cache = NewLRUCache
    /\ freq = NewFrequency(numCounters)
    /\ metrics = NewMetrics
    /\ worker = [w \in Workers |->
                   IF w = "w1" THEN [NoWorker EXCEPT !.pc = "select"] ELSE NoWorker]
    /\ pc = [c \in Callers |-> "idle"]
    /\ op = [c \in Callers |-> NoOp]
    /\ ret = [c \in Callers |-> NoRet]
    /\ fired = <<>>
    /\ acc = [k \in KeySpace |-> <<>>]
    /\ closeDone = FALSE
    /\ panicked = FALSE
    /\ now = 0

\* NewRistrettoCache with config.NumCounters = NumCounters
NewRistrettoCache(ttl, gcOn) == NewRistrettoCacheWith(ttl, gcOn, NumCounters)

\* NewRistrettoCache with TTL = 0 and no GC
InitEngine == NewRistrettoCache(0, FALSE)

\* NewShardedCacheV2 with one shard; gcOn says that gcInterval > 0, and then
\* the constructor starts the gcRunner goroutine
NewShardedCacheV2(gcOn) ==
    [closed |-> FALSE, stopCh |-> "open", wg |-> IF gcOn THEN 1 ELSE 0]

\* one caller
Init ==
    /\ InitEngine
    /\ sc = NewShardedCacheV2(FALSE)
    /\ hnsw = NewHNSW("l2")
    /\ fc = NewFastCacheWithMaxKeys(0)
    /\ gc = NoGc
    /\ vs = NewVectorStore("l2")
    /\ left = [c \in Callers |-> IF c = "c1" THEN MaxOps ELSE 0]

\* ------------------------------------------------------------------ pointers
\* objects some thread holds a pointer to
Refs(wk, o) ==
    {wk[w].ptr : w \in Workers} \cup UNION {wk[w].snap : w \in Workers}
    \cup {o[c].ptr : c \in Callers}
\* objects neither mapped nor linked; an item Clear dropped keeps its
\* element and its key and is never handed to the pool
FreeObjs(S) == {x \in Objs : x \notin Items(S) /\ ~InSeq(S.list, x)
                              /\ ~S.mem[x].element}
\* GetCacheItem: what sync.Pool may return.  A pooled object another thread
\* still points to, or an object nobody points to (pooled or new: the two are
\* indistinguishable, Add overwrites every field).
GetCacheItem(S) ==
    LET free == FreeObjs(S)
        stale == free \cap Refs(worker, op)
        fresh == free \ stale
    IN stale \cup (IF fresh = {} THEN {} ELSE {CHOOSE x \in fresh : \A y \in fresh : x <= y})

\* nothing is queued and no worker has an item in its hands
Quiesced ==
    /\ setBuf = <<>>
    /\ \A w \in Workers : worker[w].pc \in {"none", "done", "select", "drain"}
\* the value a key holds in the store, Nil when it is absent
Held(S, key) ==
    IF S.items[key] # NilPtr THEN S.mem[S.items[key]].Value ELSE Nil

\* A lookup of key at time t that answered found (history): whether the
\* map held the key, and the expiration of its entry
Look(S, key, found, t) ==
    [key |-> key, found |-> found, present |-> S.items[key] # NilPtr,
     exp |-> IF S.items[key] # NilPtr THEN S.mem[S.items[key]].Expiration ELSE 0,
     at |-> t]

\* ------------------------------------------------------------------ helpers
Bump(m, field, n) == [m EXCEPT ![field] = @ + n]
\* the last two accepted values of a key
Remember(h, v) == IF Len(h) < 2 THEN Append(h, v) ELSE <<h[2], v>>
Callback(name, key, value, cost) ==
    [cb |-> name, key |-> key, value |-> value, cost |-> cost]
\* a caller starts an operation
Starts(c) == ~panicked /\ pc[c] = "idle" /\ left[c] > 0
Returns(c, r) ==
    /\ pc' = [pc EXCEPT ![c] = "idle"]
    /\ op' = [op EXCEPT ![c] = NoOp]
    /\ ret' = [ret EXCEPT ![c] = r]

\* ------------------------------------------------------------------ set
\* the cost validation of setWithOptions
ValidCost(cost) == IF cost < 0 THEN 1 ELSE IF cost = 0 THEN 1 ELSE cost

\* setWithOptions without its cost > MaxCost test
SetPrologueNoReject(c, r, o) ==
    LET cost == ValidCost(o.cost) IN
    IF closed
    THEN /\ Returns(c, [r EXCEPT !.cost = cost])
         /\ UNCHANGED metrics
    ELSE /\ pc' = [pc EXCEPT ![c] = "send"]
         /\ op' = [op EXCEPT ![c] = [o EXCEPT !.cost = cost]]
         /\ UNCHANGED <<ret, metrics>>

\* setWithOptions up to the select: the closed check, the cost validation
\* and the rejection.  r is the result record to complete, o the operation
\* that reaches the select.
SetPrologue(c, r, o) ==
    LET cost == ValidCost(o.cost) IN
    IF closed
    THEN /\ Returns(c, [r EXCEPT !.cost = cost])
         /\ UNCHANGED metrics
    ELSE IF cost > MaxCost
    THEN /\ Returns(c, [r EXCEPT !.cost = cost, !.cb =
                <<Callback("onReject", o.key, o.value, cost),
                  Callback("onExit", NoKey, o.value, 0)>>])
         /\ metrics' = Bump(metrics, "setsRejected", 1)
    ELSE /\ pc' = [pc EXCEPT ![c] = "send"]
         /\ op' = [op EXCEPT ![c] = [o EXCEPT !.cost = cost]]
         /\ UNCHANGED <<ret, metrics>>

\* RistrettoCache.Set, up to the select
SetBegin(c, key, value, cost) ==
    /\ Starts(c)
    /\ left' = [left EXCEPT ![c] = @ - 1]
    /\ SetPrologue(c, [NoRet EXCEPT !.op = "set", !.key = key, !.val = value,
                                 !.late = closeDone],
                   [NoOp EXCEPT !.name = "set", !.key = key, !.value = value,
                                !.cost = cost])
    /\ fired' = <<>>
    /\ UNCHANGED <<gc, fc, vs, hnsw, sc, cleaner, closed, setBuf, waitCh, wg, cache, freq, worker, acc,
                   closeDone, panicked, now>>

\* the select of setWithOptions with a default case that does not count
SetSendUncounted(c) ==
    /\ ~panicked
    /\ pc[c] = "send"
    /\ LET r == [NoRet EXCEPT !.op = op[c].name, !.key = op[c].key,
                              !.val = op[c].value, !.cost = op[c].cost,
                              !.old = op[c].old, !.was = op[c].was]
       IN IF Len(setBuf) < BufCap
          THEN /\ setBuf' = Append(setBuf,
                     [key |-> op[c].key, value |-> op[c].value,
                      cost |-> op[c].cost, expiration |-> op[c].expiration,
                      pre |-> FALSE])
               /\ acc' = [acc EXCEPT ![op[c].key] = Remember(@, op[c].value)]
               /\ Returns(c, [r EXCEPT !.ok = TRUE])
          ELSE /\ Returns(c, r)
               /\ UNCHANGED <<setBuf, acc>>
    /\ fired' = <<>>
    /\ UNCHANGED <<gc, fc, vs, hnsw, sc, cleaner, closed, waitCh, wg, cache, freq, metrics, worker, left,
                   closeDone, panicked, now>>

\* the select of setWithOptions: a non-blocking send on setBuf
SetSend(c) ==
    /\ ~panicked
    /\ pc[c] = "send"
    /\ LET r == [NoRet EXCEPT !.op = op[c].name, !.key = op[c].key,
                              !.val = op[c].value, !.cost = op[c].cost,
                              !.old = op[c].old, !.was = op[c].was]
       IN IF Len(setBuf) < BufCap
          THEN /\ setBuf' = Append(setBuf,
                     [key |-> op[c].key, value |-> op[c].value,
                      cost |-> op[c].cost, expiration |-> op[c].expiration,
                      pre |-> FALSE])
               /\ acc' = [acc EXCEPT ![op[c].key] = Remember(@, op[c].value)]
               /\ Returns(c, [r EXCEPT !.ok = TRUE])
               /\ UNCHANGED metrics
          ELSE /\ metrics' = Bump(metrics, "setsDropped", 1)
               /\ Returns(c, r)
               /\ UNCHANGED <<setBuf, acc>>
    /\ fired' = <<>>
    /\ UNCHANGED <<gc, fc, vs, hnsw, sc, cleaner, closed, waitCh, wg, cache, freq, worker, left, closeDone,
                   panicked, now>>

\* RistrettoCache.SetWithTTL, up to the select
SetWithTTL(c, key, value, cost, ttl) ==
    /\ Starts(c)
    /\ left' = [left EXCEPT ![c] = @ - 1]
    /\ LET expiration == IF ttl > 0 THEN now + ttl ELSE 0
       IN SetPrologue(c, [NoRet EXCEPT !.op = "setWithTtl", !.key = key,
                                       !.val = value, !.late = closeDone],
                      [NoOp EXCEPT !.name = "setWithTtl", !.key = key,
                                   !.value = value, !.cost = cost,
                                   !.expiration = expiration])
    /\ fired' = <<>>
    /\ UNCHANGED <<gc, fc, vs, hnsw, sc, cleaner, closed, setBuf, waitCh, wg, cache, freq, worker, acc,
                   closeDone, panicked, now>>

\* ------------------------------------------------------------------ time
\* the clock advances, and the ticker of a running ttlCleaner fires every
\* ttl / 2; the cleaner is prompt: it handles a tick before the next one
Tick ==
    /\ ~panicked
    /\ now < MaxTime
    /\ ~cleaner.due /\ cleaner.pc # "sweep"
    /\ now' = now + 1
    /\ cleaner' = IF cleaner.pc = "select" /\ (now + 1) % (cleaner.ttl \div 2) = 0
                  THEN [cleaner EXCEPT !.due = TRUE] ELSE cleaner
    /\ fired' = <<>>
    /\ UNCHANGED <<gc, fc, vs, hnsw, sc, closed, setBuf, waitCh, wg, cache, freq, metrics, worker,
                   pc, op, ret, left, acc, closeDone, panicked>>

\* ------------------------------------------------------------------ get
\* RistrettoCache.Get up to the return of GetAndUpdate
GetBegin(c, key) ==
    /\ Starts(c)
    /\ left' = [left EXCEPT ![c] = @ - 1]
    /\ LET g == GetAndUpdate(cache, key, now)
           r == [NoRet EXCEPT !.op = "get", !.key = key, !.late = closeDone,
                              !.quiet = Quiesced,
                              !.looks = IF closed THEN {}
                                        ELSE {Look(cache, key, g[3], now)}]
       IN IF closed
          THEN /\ Returns(c, r)
               /\ UNCHANGED <<cache, metrics, panicked>>
          ELSE /\ cache' = g[1]
               /\ panicked' = g[1].panic
               /\ IF g[3]
                  THEN /\ pc' = [pc EXCEPT ![c] = "get2"]
                       /\ op' = [op EXCEPT ![c] =
                              [NoOp EXCEPT !.name = "get", !.key = key, !.ptr = g[2],
                                           !.quiet = Quiesced, !.looks = r.looks]]
                       /\ UNCHANGED <<ret, metrics>>
                  ELSE /\ Returns(c, r)
                       /\ metrics' = Bump(metrics, "misses", 1)
    /\ fired' = <<>>
    /\ UNCHANGED <<gc, fc, vs, hnsw, sc, cleaner, closed, setBuf, waitCh, wg, freq, worker, acc, closeDone, now>>

\* the rest of Get on a hit: freq.Increment, hits, and the read of item.Value
\* (made after GetAndUpdate released the lock)
GetEnd(c) ==
    /\ ~panicked
    /\ pc[c] = "get2"
    /\ \E f \in Increment(freq, op[c].key) : freq' = f
    /\ metrics' = Bump(metrics, "hits", 1)
    /\ Returns(c, [NoRet EXCEPT !.op = "get", !.key = op[c].key, !.ok = TRUE,
                                !.val = cache.mem[op[c].ptr].Value,
                                !.quiet = op[c].quiet, !.looks = op[c].looks])
    /\ fired' = <<>>
    /\ UNCHANGED <<gc, fc, vs, hnsw, sc, cleaner, closed, setBuf, waitCh, wg, cache, worker, left, acc,
                   closeDone, panicked, now>>

\* RistrettoCache.GetWithTTL up to the return of GetAndUpdate
GetWithTTLBegin(c, key) ==
    /\ Starts(c)
    /\ left' = [left EXCEPT ![c] = @ - 1]
    /\ LET g == GetAndUpdate(cache, key, now)
           r == [NoRet EXCEPT !.op = "getWithTtl", !.key = key, !.late = closeDone,
                              !.quiet = Quiesced,
                              !.looks = IF closed THEN {}
                                        ELSE {Look(cache, key, g[3], now)}]
       IN IF closed
          THEN /\ Returns(c, r)
               /\ UNCHANGED <<cache, metrics, panicked>>
          ELSE /\ cache' = g[1]
               /\ panicked' = g[1].panic
               /\ IF g[3]
                  THEN /\ pc' = [pc EXCEPT ![c] = "getttl2"]
                       /\ op' = [op EXCEPT ![c] =
                              [NoOp EXCEPT !.name = "getWithTtl", !.key = key,
                                           !.ptr = g[2], !.quiet = Quiesced,
                                           !.looks = r.looks]]
                       /\ UNCHANGED <<ret, metrics>>
                  ELSE /\ Returns(c, r)
                       /\ metrics' = Bump(metrics, "misses", 1)
    /\ fired' = <<>>
    /\ UNCHANGED <<gc, fc, vs, hnsw, sc, cleaner, closed, setBuf, waitCh, wg, freq, worker, acc, closeDone, now>>

\* the rest of GetWithTTL on a hit: freq.Increment, hits, the remaining time
\* and the value, read from the item after the lock was released
GetWithTTLEnd(c) ==
    /\ ~panicked
    /\ pc[c] = "getttl2"
    /\ \E f \in Increment(freq, op[c].key) : freq' = f
    /\ metrics' = Bump(metrics, "hits", 1)
    /\ LET item == cache.mem[op[c].ptr]
           ttl == IF item.Expiration > 0
                  THEN (IF item.Expiration - now < 0 THEN 0 ELSE item.Expiration - now)
                  ELSE 0
       IN Returns(c, [NoRet EXCEPT !.op = "getWithTtl", !.key = op[c].key,
                                   !.ok = TRUE, !.val = item.Value, !.ttl = ttl,
                                   !.quiet = op[c].quiet, !.looks = op[c].looks])
    /\ fired' = <<>>
    /\ UNCHANGED <<gc, fc, vs, hnsw, sc, cleaner, closed, setBuf, waitCh, wg, cache, worker, left, acc,
                   closeDone, panicked, now>>

\* RistrettoCache.GetTTL up to the return of GetAndUpdate; there is no closed
\* check and a miss counts nothing
GetTTLBegin(c, key) ==
    /\ Starts(c)
    /\ left' = [left EXCEPT ![c] = @ - 1]
    /\ LET g == GetAndUpdate(cache, key, now)
           looks == {Look(cache, key, g[3], now)}
       IN /\ cache' = g[1]
          /\ panicked' = g[1].panic
          /\ IF g[3]
             THEN /\ pc' = [pc EXCEPT ![c] = "ttl2"]
                  /\ op' = [op EXCEPT ![c] =
                         [NoOp EXCEPT !.name = "getTtl", !.key = key, !.ptr = g[2],
                                      !.quiet = Quiesced, !.looks = looks]]
                  /\ UNCHANGED ret
             ELSE Returns(c, [NoRet EXCEPT !.op = "getTtl", !.key = key,
                                          !.late = closeDone, !.quiet = Quiesced,
                                          !.looks = looks])
    /\ fired' = <<>>
    /\ UNCHANGED <<gc, fc, vs, hnsw, sc, cleaner, closed, setBuf, waitCh, wg, freq, metrics, worker,
                   acc, closeDone, now>>

\* the rest of GetTTL on a hit: the remaining time, read from the item after
\* the lock was released; (0, false) for an item without expiration and for
\* one that has expired since
GetTTLEnd(c) ==
    /\ ~panicked
    /\ pc[c] = "ttl2"
    /\ LET item == cache.mem[op[c].ptr]
           live == item.Expiration > 0 /\ item.Expiration - now >= 0
       IN Returns(c, [NoRet EXCEPT !.op = "getTtl", !.key = op[c].key,
                                   !.ok = live,
                                   !.ttl = IF live THEN item.Expiration - now ELSE 0,
                                   !.quiet = op[c].quiet, !.looks = op[c].looks])
    /\ fired' = <<>>
    /\ UNCHANGED <<gc, fc, vs, hnsw, sc, cleaner, closed, setBuf, waitCh, wg, cache, freq, metrics,
                   worker, left, acc, closeDone, panicked, now>>

\* RistrettoCache.MGet: the closed check
MGetBegin(c, keys) ==
    /\ Starts(c)
    /\ left' = [left EXCEPT ![c] = @ - 1]
    /\ IF closed
       THEN Returns(c, [NoRet EXCEPT !.op = "mget", !.late = closeDone])
       ELSE /\ pc' = [pc EXCEPT ![c] = "mget"]
            /\ op' = [op EXCEPT ![c] = [NoOp EXCEPT !.name = "mget", !.keys = keys]]
            /\ UNCHANGED ret
    /\ fired' = <<>>
    /\ UNCHANGED <<gc, fc, vs, hnsw, sc, cleaner, closed, setBuf, waitCh, wg, cache, freq, metrics, worker,
                   acc, closeDone, panicked, now>>

\* the loop of MGet: its return, or the Get of the next key up to the return
\* of GetAndUpdate
MGetLook(c) ==
    /\ ~panicked
    /\ pc[c] = "mget"
    /\ IF op[c].keys = <<>>
       THEN /\ Returns(c, [NoRet EXCEPT !.op = "mget", !.ok = op[c].res # {},
                                        !.res = op[c].res, !.looks = op[c].looks])
            /\ UNCHANGED <<cache, metrics, panicked>>
       ELSE LET key == Head(op[c].keys)
                g == GetAndUpdate(cache, key, now)
            IN IF closed
               THEN /\ op' = [op EXCEPT ![c].keys = Tail(@)]
                    /\ UNCHANGED <<pc, ret, cache, metrics, panicked>>
               ELSE /\ cache' = g[1]
                    /\ panicked' = g[1].panic
                    /\ UNCHANGED ret
                    /\ IF g[3]
                       THEN /\ pc' = [pc EXCEPT ![c] = "mget2"]
                            /\ op' = [op EXCEPT ![c].ptr = g[2], ![c].key = key,
                                   ![c].looks = @ \cup {Look(cache, key, TRUE, now)}]
                            /\ UNCHANGED metrics
                       ELSE /\ op' = [op EXCEPT ![c].keys = Tail(@),
                                   ![c].looks = @ \cup {Look(cache, key, FALSE, now)}]
                            /\ metrics' = Bump(metrics, "misses", 1)
                            /\ UNCHANGED pc
    /\ fired' = <<>>
    /\ UNCHANGED <<gc, fc, vs, hnsw, sc, cleaner, closed, setBuf, waitCh, wg, freq, worker, left, acc,
                   closeDone, now>>

\* the rest of the Get of MGet on a hit, and result[key] = value
MGetRead(c) ==
    /\ ~panicked
    /\ pc[c] = "mget2"
    /\ \E f \in Increment(freq, op[c].key) : freq' = f
    /\ metrics' = Bump(metrics, "hits", 1)
    /\ pc' = [pc EXCEPT ![c] = "mget"]
    /\ op' = [op EXCEPT ![c].keys = Tail(@), ![c].ptr = NilPtr, ![c].key = NoKey,
                        ![c].res = @ \cup {<<op[c].key, cache.mem[op[c].ptr].Value>>}]
    /\ fired' = <<>>
    /\ UNCHANGED <<gc, fc, vs, hnsw, sc, cleaner, closed, setBuf, waitCh, wg, cache, worker, ret, left, acc,
                   closeDone, panicked, now>>

\* RistrettoCache.Exists
Exists(c, key) ==
    /\ Starts(c)
    /\ left' = [left EXCEPT ![c] = @ - 1]
    /\ Returns(c, [NoRet EXCEPT !.op = "exists", !.key = key,
                                !.ok = Get(cache, key, now)[2], !.late = closeDone,
                                !.looks = {Look(cache, key, Get(cache, key, now)[2], now)}])
    /\ fired' = <<>>
    /\ UNCHANGED <<gc, fc, vs, hnsw, sc, cleaner, closed, setBuf, waitCh, wg, cache, freq, metrics, worker,
                   acc, closeDone, panicked, now>>

\* ------------------------------------------------------------------ del, clear
\* RistrettoCache.Del.  was is the value the key held (history).
Del(c, key) ==
    /\ Starts(c)
    /\ left' = [left EXCEPT ![c] = @ - 1]
    /\ LET d == Delete(cache, key)
           was == Held(cache, key)
       IN /\ cache' = d[1]
          /\ Returns(c, [NoRet EXCEPT !.op = "del", !.key = key, !.ok = d[3],
                 !.val = d[2], !.was = was, !.late = closeDone,
                 !.cb = IF d[3] /\ d[2] # Nil
                        THEN <<Callback("onExit", NoKey, d[2], 0)>> ELSE <<>>])
    /\ fired' = <<>>
    /\ UNCHANGED <<gc, fc, vs, hnsw, sc, cleaner, closed, setBuf, waitCh, wg, freq, metrics, worker, acc,
                   closeDone, panicked, now>>

\* RistrettoCache.Clear
ClearAll(c) ==
    /\ Starts(c)
    /\ left' = [left EXCEPT ![c] = @ - 1]
    /\ cache' = Clear(cache)
    /\ Returns(c, [NoRet EXCEPT !.op = "clear", !.late = closeDone,
                                !.ok = cache' # cache])
    /\ fired' = <<>>
    /\ UNCHANGED <<gc, fc, vs, hnsw, sc, cleaner, closed, setBuf, waitCh, wg, freq, metrics, worker, acc,
                   closeDone, panicked, now>>

\* ------------------------------------------------------------------ cas
\* RistrettoCache.CAS up to the return of GetItem
CasBegin(c, key, oldValue, newValue, cost) ==
    /\ Starts(c)
    /\ left' = [left EXCEPT ![c] = @ - 1]
    /\ LET r == [NoRet EXCEPT !.op = "cas", !.key = key, !.val = newValue,
                              !.old = oldValue, !.was = Held(cache, key),
                              !.late = closeDone]
           g == GetItem(cache, key)
       IN IF closed
          THEN Returns(c, r)
          ELSE IF ~g[2]
          THEN Returns(c, r)
          ELSE /\ pc' = [pc EXCEPT ![c] = "cas2"]
               /\ op' = [op EXCEPT ![c] =
                      [name |-> "cas", key |-> key, value |-> newValue,
                       cost |-> IF cost < 0 THEN 1 ELSE cost,
                       old |-> oldValue, was |-> Nil, ptr |-> g[1],
                       quiet |-> FALSE, expiration |-> 0, keys |-> <<>>,
                       looks |-> {}, res |-> {}]]
               /\ UNCHANGED ret
    /\ fired' = <<>>
    /\ UNCHANGED <<gc, fc, vs, hnsw, sc, cleaner, closed, setBuf, waitCh, wg, cache, freq, metrics, worker,
                   acc, closeDone, panicked, now>>

\* the comparison of CAS (item.Value is read after GetItem released the
\* lock), and on a match Set up to its select
CasCompare(c) ==
    /\ ~panicked
    /\ pc[c] = "cas2"
    /\ LET r == [NoRet EXCEPT !.op = "cas", !.key = op[c].key, !.val = op[c].value,
                              !.old = op[c].old, !.was = Held(cache, op[c].key)]
       IN IF op[c].old # cache.mem[op[c].ptr].Value
          THEN /\ Returns(c, r)
               /\ UNCHANGED metrics
          ELSE SetPrologue(c, r, [op[c] EXCEPT !.ptr = NilPtr, !.was = r.was])
    /\ fired' = <<>>
    /\ UNCHANGED <<gc, fc, vs, hnsw, sc, cleaner, closed, setBuf, waitCh, wg, cache, freq, worker, left, acc,
                   closeDone, panicked, now>>

\* ------------------------------------------------------------------ wait, close
\* RistrettoCache.Wait: the closed check
WaitBegin(c) ==
    /\ Starts(c)
    /\ left' = [left EXCEPT ![c] = @ - 1]
    /\ IF closed
       THEN Returns(c, [NoRet EXCEPT !.op = "wait", !.late = closeDone])
       ELSE /\ pc' = [pc EXCEPT ![c] = "wait_signal"]
            /\ op' = [op EXCEPT ![c] = [NoOp EXCEPT !.name = "wait",
                                                    !.quiet = Quiesced]]
            /\ UNCHANGED ret
    /\ fired' = <<>>
    /\ UNCHANGED <<gc, fc, vs, hnsw, sc, cleaner, closed, setBuf, waitCh, wg, cache, freq, metrics, worker,
                   acc, closeDone, panicked, now>>

\* close(c.waitCh) of Wait and of Close; closing a closed channel panics.
\* The items queued or in the worker's hands at this point are marked
\* (history): they are the ones enqueued before the signal.
Signal(c, from, to) ==
    /\ ~panicked
    /\ pc[c] = from
    /\ IF waitCh = "closed"
       THEN /\ panicked' = TRUE
            /\ UNCHANGED <<waitCh, setBuf, worker, pc>>
       ELSE /\ waitCh' = "closed"
            /\ setBuf' = [i \in 1..Len(setBuf) |-> [setBuf[i] EXCEPT !.pre = TRUE]]
            /\ worker' = [w \in Workers |->
                   IF worker[w].item = NoItem THEN worker[w]
                   ELSE [worker[w] EXCEPT !.item.pre = TRUE]]
            /\ pc' = [pc EXCEPT ![c] = to]
            /\ UNCHANGED panicked
    /\ fired' = <<>>
    /\ UNCHANGED <<gc, fc, vs, hnsw, sc, cleaner, closed, wg, cache, freq, metrics, op, ret, left, acc,
                   closeDone, now>>

WaitSignal(c) == Signal(c, "wait_signal", "wait_join")

\* c.wg.Wait() of Wait
WaitJoin(c) ==
    /\ ~panicked
    /\ pc[c] = "wait_join"
    /\ wg = 0
    /\ pc' = [pc EXCEPT ![c] = "wait_make"]
    /\ fired' = <<>>
    /\ UNCHANGED <<gc, fc, vs, hnsw, sc, cleaner, closed, setBuf, waitCh, wg, cache, freq, metrics, worker,
                   op, ret, left, acc, closeDone, panicked, now>>

\* c.waitCh = make(chan struct{})
WaitMake(c) ==
    /\ ~panicked
    /\ pc[c] = "wait_make"
    /\ waitCh' = "open"
    /\ pc' = [pc EXCEPT ![c] = "wait_go"]
    /\ fired' = <<>>
    /\ UNCHANGED <<gc, fc, vs, hnsw, sc, cleaner, closed, setBuf, wg, cache, freq, metrics, worker, op, ret,
                   left, acc, closeDone, panicked, now>>

\* a goroutine slot that is free
FreeSlot(w) ==
    /\ worker[w].pc \in {"none", "done"}
    /\ w = "w1" \/ worker["w1"].pc \notin {"none", "done"}

\* c.wg.Add(1); go c.processSets()
WaitGo(c) ==
    /\ ~panicked
    /\ pc[c] = "wait_go"
    /\ \E w \in Workers :
         /\ FreeSlot(w)
         /\ worker' = [worker EXCEPT ![w] = [NoWorker EXCEPT !.pc = "select"]]
    /\ wg' = wg + 1
    /\ Returns(c, [NoRet EXCEPT !.op = "wait", !.ok = TRUE,
                                !.quiet = op[c].quiet])
    /\ fired' = <<>>
    /\ UNCHANGED <<gc, fc, vs, hnsw, sc, cleaner, closed, setBuf, waitCh, cache, freq, metrics, left, acc,
                   closeDone, panicked, now>>

\* RistrettoCache.Close from its closed.Swap(true), run for caller c; r is
\* what the caller's operation returns when the shard is already closed
EngineClose(c, r) ==
    /\ closed' = TRUE
    /\ IF closed
       THEN Returns(c, r)
       ELSE /\ pc' = [pc EXCEPT ![c] = "close_signal"]
            /\ op' = [op EXCEPT ![c] = [NoOp EXCEPT !.name = r.op]]
            /\ UNCHANGED ret

\* Close without the test of what Swap returned
CloseBeginNoTest(c) ==
    /\ Starts(c)
    /\ left' = [left EXCEPT ![c] = @ - 1]
    /\ closed' = TRUE
    /\ pc' = [pc EXCEPT ![c] = "close_signal"]
    /\ op' = [op EXCEPT ![c] = [NoOp EXCEPT !.name = "close"]]
    /\ fired' = <<>>
    /\ UNCHANGED <<gc, fc, vs, hnsw, sc, cleaner, ret, setBuf, waitCh, wg, cache, freq, metrics, worker, acc,
                   closeDone, panicked, now>>

\* RistrettoCache.Close: closed.Swap(true).  In what a close returns, ok
\* says that this call did the closing (the code returns nil either way).
CloseBegin(c) ==
    /\ Starts(c)
    /\ left' = [left EXCEPT ![c] = @ - 1]
    /\ EngineClose(c, [NoRet EXCEPT !.op = "close", !.late = closeDone])
    /\ fired' = <<>>
    /\ UNCHANGED <<gc, fc, vs, hnsw, sc, cleaner, setBuf, waitCh, wg, cache, freq, metrics, worker, acc,
                   closeDone, panicked, now>>

CloseSignal(c) == Signal(c, "close_signal", "close_join")

\* c.wg.Wait() of Close, and its return
CloseJoin(c) ==
    /\ ~panicked
    /\ pc[c] = "close_join"
    /\ wg = 0
    /\ Returns(c, [NoRet EXCEPT !.op = op[c].name, !.ok = TRUE])
    /\ closeDone' = TRUE
    /\ fired' = <<>>
    /\ UNCHANGED <<gc, fc, vs, hnsw, sc, cleaner, closed, setBuf, waitCh, wg, cache, freq, metrics, worker,
                   left, acc, panicked, now>>

\* ------------------------------------------------------------------ ShardedCacheV2
\* ShardedCacheV2.Close: the test of sc.closed and sc.closed = true
ScCloseBegin(c) ==
    /\ Starts(c)
    /\ left' = [left EXCEPT ![c] = @ - 1]
    /\ IF sc.closed
       THEN /\ Returns(c, [NoRet EXCEPT !.op = "scclose", !.late = closeDone])
            /\ UNCHANGED sc
       ELSE /\ sc' = [sc EXCEPT !.closed = TRUE]
            /\ pc' = [pc EXCEPT ![c] = "sc_stop"]
            /\ op' = [op EXCEPT ![c] = [NoOp EXCEPT !.name = "scclose"]]
            /\ UNCHANGED ret
    /\ fired' = <<>>
    /\ UNCHANGED <<gc, fc, vs, hnsw, cleaner, closed, setBuf, waitCh, wg, cache, freq, metrics, worker, acc,
                   closeDone, panicked, now>>

\* close(sc.stopCh)
ScStop(c) ==
    /\ ~panicked
    /\ pc[c] = "sc_stop"
    /\ IF sc.stopCh = "closed"
       THEN /\ panicked' = TRUE
            /\ UNCHANGED <<sc, pc>>
       ELSE /\ sc' = [sc EXCEPT !.stopCh = "closed"]
            /\ pc' = [pc EXCEPT ![c] = "sc_join"]
            /\ UNCHANGED panicked
    /\ fired' = <<>>
    /\ UNCHANGED <<gc, fc, vs, hnsw, cleaner, closed, setBuf, waitCh, wg, cache, freq, metrics, worker, op,
                   ret, left, acc, closeDone, now>>

\* sc.wg.Wait(), then Close of the shard (in a goroutine the caller waits for)
ScJoin(c) ==
    /\ ~panicked
    /\ pc[c] = "sc_join"
    /\ sc.wg = 0
    /\ EngineClose(c, [NoRet EXCEPT !.op = "scclose", !.ok = TRUE])
    /\ fired' = <<>>
    /\ UNCHANGED <<gc, fc, vs, hnsw, sc, cleaner, setBuf, waitCh, wg, cache, freq, metrics, worker, left,
                   acc, closeDone, panicked, now>>

\* ShardedCacheV2.gcRunner returning: on stopCh, or on a tick that finds
\* sc.closed set
ScGcReturn ==
    /\ ~panicked
    /\ sc.wg = 1
    /\ sc.stopCh = "closed" \/ sc.closed
    /\ sc' = [sc EXCEPT !.wg = 0]
    /\ fired' = <<>>
    /\ UNCHANGED <<gc, fc, vs, hnsw, cleaner, closed, setBuf, waitCh, wg, cache, freq, metrics, worker, pc,
                   op, ret, left, acc, closeDone, panicked, now>>

\* ------------------------------------------------------------------ processSets
SetWorker(w, r) == worker' = [worker EXCEPT ![w] = r]
At(w, where) == ~panicked /\ worker[w].pc = where
\* processOneSet has returned: back to the loop processSets is in
NextItem(wr) ==
    [NoWorker EXCEPT !.pc = IF wr.drain THEN "drain" ELSE "select",
                     !.drain = wr.drain]

\* processSets taking the newest item of the queue instead of the oldest
SelectNewest(w) ==
    /\ At(w, "select")
    /\ \/ /\ setBuf # <<>>
          /\ setBuf' = SubSeq(setBuf, 1, Len(setBuf) - 1)
          /\ SetWorker(w, [worker[w] EXCEPT !.pc = "inc", !.item = Back(setBuf)])
       \/ /\ waitCh = "closed"
          /\ SetWorker(w, [worker[w] EXCEPT !.pc = "drain", !.drain = TRUE])
          /\ UNCHANGED setBuf
    /\ fired' = <<>>
    /\ UNCHANGED <<gc, fc, vs, hnsw, sc, cleaner, closed, waitCh, wg, cache, freq, metrics, pc, op, ret, left,
                   acc, closeDone, panicked, now>>

\* the outer select of processSets: an item, or the wait signal
Select(w) ==
    /\ At(w, "select")
    /\ \/ /\ setBuf # <<>>
          /\ setBuf' = Tail(setBuf)
          /\ SetWorker(w, [worker[w] EXCEPT !.pc = "inc", !.item = Head(setBuf)])
       \/ /\ waitCh = "closed"
          /\ SetWorker(w, [worker[w] EXCEPT !.pc = "drain", !.drain = TRUE])
          /\ UNCHANGED setBuf
    /\ fired' = <<>>
    /\ UNCHANGED <<gc, fc, vs, hnsw, sc, cleaner, closed, waitCh, wg, cache, freq, metrics, pc, op, ret, left,
                   acc, closeDone, panicked, now>>

\* processSets returning on the signal without its inner loop
DrainNoLoop(w) ==
    /\ At(w, "drain")
    /\ SetWorker(w, [NoWorker EXCEPT !.pc = "done"])
    /\ wg' = wg - 1
    /\ fired' = <<>>
    /\ UNCHANGED <<gc, fc, vs, hnsw, sc, cleaner, closed, setBuf, waitCh, cache, freq, metrics, pc, op, ret,
                   left, acc, closeDone, panicked, now>>

\* the inner select of processSets: an item, or return (wg.Done is deferred)
Drain(w) ==
    /\ At(w, "drain")
    /\ IF setBuf # <<>>
       THEN /\ setBuf' = Tail(setBuf)
            /\ SetWorker(w, [worker[w] EXCEPT !.pc = "inc", !.item = Head(setBuf)])
            /\ UNCHANGED wg
       ELSE /\ SetWorker(w, [NoWorker EXCEPT !.pc = "done"])
            /\ wg' = wg - 1
            /\ UNCHANGED setBuf
    /\ fired' = <<>>
    /\ UNCHANGED <<gc, fc, vs, hnsw, sc, cleaner, closed, waitCh, cache, freq, metrics, pc, op, ret, left,
                   acc, closeDone, panicked, now>>

\* ------------------------------------------------------------------ processOneSet
\* sampleMinFrequency's sample size
SampleSize == 5

\* c.freq.Increment(key)
ProcIncrement(w) ==
    /\ At(w, "inc")
    /\ \E f \in Increment(freq, worker[w].item.key) : freq' = f
    /\ SetWorker(w, [worker[w] EXCEPT !.pc = "cost"])
    /\ fired' = <<>>
    /\ UNCHANGED <<gc, fc, vs, hnsw, sc, cleaner, closed, setBuf, waitCh, wg, cache, metrics, pc, op, ret,
                   left, acc, closeDone, panicked, now>>

\* currentCost := c.cache.Cost(); isNearCapacity
ProcNearCapacity(w) ==
    /\ At(w, "cost")
    /\ LET isNearCapacity == MaxCost > 0 /\ cache.cost > (MaxCost * 7) \div 10
       IN SetWorker(w, [worker[w] EXCEPT
              !.pc = IF isNearCapacity THEN "len" ELSE "avail"])
    /\ fired' = <<>>
    /\ UNCHANGED <<gc, fc, vs, hnsw, sc, cleaner, closed, setBuf, waitCh, wg, cache, freq, metrics, pc, op,
                   ret, left, acc, closeDone, panicked, now>>

\* c.cache.Len() > 0
ProcLen(w) ==
    /\ At(w, "len")
    /\ SetWorker(w, [worker[w] EXCEPT
           !.pc = IF LenOf(cache) > 0 THEN "sample" ELSE "avail"])
    /\ fired' = <<>>
    /\ UNCHANGED <<gc, fc, vs, hnsw, sc, cleaner, closed, setBuf, waitCh, wg, cache, freq, metrics, pc, op,
                   ret, left, acc, closeDone, panicked, now>>

\* currentFreq := c.freq.Get(key), and the snapshot c.cache.Items() that
\* sampleMinFrequency starts with
ProcSample(w) ==
    /\ At(w, "sample")
    /\ SetWorker(w, [worker[w] EXCEPT
           !.pc = "pick", !.snap = Items(cache),
           !.currentFreq = FreqGet(freq, worker[w].item.key)])
    /\ fired' = <<>>
    /\ UNCHANGED <<gc, fc, vs, hnsw, sc, cleaner, closed, setBuf, waitCh, wg, cache, freq, metrics, pc, op,
                   ret, left, acc, closeDone, panicked, now>>

\* the frequency sampleMinFrequency reads for a snapshot item
SampledFreq(o) ==
    IF cache.mem[o].Key \in KeySpace THEN FreqGet(freq, cache.mem[o].Key) ELSE 0

\* an admission test that a tie passes
AdmitsTies(currentFreq, minFreq, evictKey) ==
    currentFreq >= minFreq /\ evictKey # NoKey
\* currentFreq > minFreq && evictKey != ""
Admits(currentFreq, minFreq, evictKey) ==
    currentFreq > minFreq /\ evictKey # NoKey

\* the loop of sampleMinFrequency over the first sampleSize items of the
\* snapshot (any items: the map's order), and the admission decision
ProcPick(w) ==
    /\ At(w, "pick")
    /\ LET wr == worker[w]
           n == Min(SampleSize, Cardinality(wr.snap))
       IN IF wr.snap = {}
          THEN SetWorker(w, [wr EXCEPT !.pc = "avail", !.snap = {}, !.currentFreq = 0])
          ELSE \E sample \in SUBSET wr.snap :
                 /\ Cardinality(sample) = n
                 /\ \E o \in sample :
                      /\ \A x \in sample : SampledFreq(o) <= SampledFreq(x)
                      /\ LET minFreq == SampledFreq(o)
                             evictKey == cache.mem[o].Key
                         IN IF Admits(wr.currentFreq, minFreq, evictKey)
                            THEN SetWorker(w, [wr EXCEPT !.pc = "sdel", !.snap = {},
                                     !.currentFreq = 0, !.evictKey = evictKey])
                            ELSE SetWorker(w, [wr EXCEPT !.pc = "avail", !.snap = {},
                                     !.currentFreq = 0])
    /\ fired' = <<>>
    /\ UNCHANGED <<gc, fc, vs, hnsw, sc, cleaner, closed, setBuf, waitCh, wg, cache, freq, metrics, pc, op,
                   ret, left, acc, closeDone, panicked, now>>

\* c.cache.Delete(evictKey)
ProcSampleDelete(w) ==
    /\ At(w, "sdel")
    /\ cache' = Delete(cache, worker[w].evictKey)[1]
    /\ SetWorker(w, [worker[w] EXCEPT !.pc = "avail", !.evictKey = NoKey])
    /\ fired' = <<>>
    /\ UNCHANGED <<gc, fc, vs, hnsw, sc, cleaner, closed, setBuf, waitCh, wg, freq, metrics, pc, op, ret,
                   left, acc, closeDone, panicked, now>>

\* availCost := c.config.MaxCost - c.cache.Cost()
ProcAvail(w) ==
    /\ At(w, "avail")
    /\ LET availCost == MaxCost - cache.cost
       IN SetWorker(w, [worker[w] EXCEPT
              !.pc = IF worker[w].item.cost > availCost THEN "loop" ELSE "getItem"])
    /\ fired' = <<>>
    /\ UNCHANGED <<gc, fc, vs, hnsw, sc, cleaner, closed, setBuf, waitCh, wg, cache, freq, metrics, pc, op,
                   ret, left, acc, closeDone, panicked, now>>

\* an eviction loop that runs until the store is empty
ProcLoopToEmpty(w) ==
    /\ At(w, "loop")
    /\ SetWorker(w, [worker[w] EXCEPT
           !.pc = IF LenOf(cache) > 0 THEN "back" ELSE "getItem"])
    /\ fired' = <<>>
    /\ UNCHANGED <<gc, fc, vs, hnsw, sc, cleaner, closed, setBuf, waitCh, wg, cache, freq, metrics, pc, op,
                   ret, left, acc, closeDone, panicked, now>>

\* the condition of the eviction loop
ProcLoop(w) ==
    /\ At(w, "loop")
    /\ SetWorker(w, [worker[w] EXCEPT
           !.pc = IF cache.cost + worker[w].item.cost > MaxCost /\ LenOf(cache) > 0
                  THEN "back" ELSE "getItem"])
    /\ fired' = <<>>
    /\ UNCHANGED <<gc, fc, vs, hnsw, sc, cleaner, closed, setBuf, waitCh, wg, cache, freq, metrics, pc, op,
                   ret, left, acc, closeDone, panicked, now>>

\* evictOne up to the callbacks: the tail of the list, read without the
\* lock.  Back() is nil when len is 0; when it is the root, the type
\* assertion on its nil Value panics.
EvictBack(w) ==
    /\ At(w, "back")
    /\ IF cache.len = 0
       THEN /\ SetWorker(w, [worker[w] EXCEPT !.pc = "getItem"])
            /\ fired' = <<>>
            /\ UNCHANGED panicked
       ELSE IF cache.prev[Root] = Root
       THEN /\ panicked' = TRUE
            /\ fired' = <<>>
            /\ UNCHANGED worker
       ELSE LET evicted == cache.prev[Root]
                item == cache.mem[evicted]
            IN /\ SetWorker(w, [worker[w] EXCEPT !.pc = "remove", !.ptr = evicted])
               /\ fired' = <<Callback("onEvict", item.Key, item.Value, item.Cost),
                             Callback("onExit", NoKey, item.Value, 0)>>
               /\ UNCHANGED panicked
    /\ UNCHANGED <<gc, fc, vs, hnsw, sc, cleaner, closed, setBuf, waitCh, wg, cache, freq, metrics, pc, op,
                   ret, left, acc, closeDone, now>>

\* the rest of evictOne: c.cache.RemoveElement(evicted), without the lock,
\* and the metrics
EvictRemove(w) ==
    /\ At(w, "remove")
    /\ cache' = removeElement(cache, worker[w].ptr)
    /\ metrics' = Bump(Bump(metrics, "keysEvicted", 1), "costEvicted",
                       cache.mem[worker[w].ptr].Cost)
    /\ SetWorker(w, [worker[w] EXCEPT !.pc = "loop", !.ptr = NilPtr])
    /\ fired' = <<>>
    /\ UNCHANGED <<gc, fc, vs, hnsw, sc, cleaner, closed, setBuf, waitCh, wg, freq, pc, op, ret, left, acc,
                   closeDone, panicked, now>>

\* oldItem, found := c.cache.GetItem(key)
ProcGetItem(w) ==
    /\ At(w, "getItem")
    /\ LET g == GetItem(cache, worker[w].item.key)
       IN SetWorker(w, [worker[w] EXCEPT
              !.pc = IF g[2] THEN "update" ELSE "add", !.ptr = g[1]])
    /\ fired' = <<>>
    /\ UNCHANGED <<gc, fc, vs, hnsw, sc, cleaner, closed, setBuf, waitCh, wg, cache, freq, metrics, pc, op,
                   ret, left, acc, closeDone, panicked, now>>

\* the update of processOneSet through the pointer GetItem returned
UpdateItem(S, p, item) ==
    LET S1 == [S EXCEPT !.mem = [S.mem EXCEPT ![p] =
                            [@ EXCEPT !.Value = item.value, !.Cost = item.cost,
                                      !.Expiration = item.expiration]],
                        !.cost = S.cost - S.mem[p].Cost + item.cost]
    IN MoveToFront(S1, p)

\* the found branch of processOneSet
ProcUpdate(w) ==
    /\ At(w, "update")
    /\ LET wr == worker[w]
           oldValue == cache.mem[wr.ptr].Value
           S == UpdateItem(cache, wr.ptr, wr.item)
       IN /\ cache' = S
          /\ panicked' = S.panic
          /\ IF S.panic
             THEN /\ fired' = <<>>
                  /\ UNCHANGED <<metrics, worker>>
             ELSE /\ metrics' = Bump(metrics, "costAdded", wr.item.cost)
                  /\ fired' = IF oldValue # Nil
                              THEN <<Callback("onExit", NoKey, oldValue, 0)>>
                              ELSE <<>>
                  /\ SetWorker(w, NextItem(wr))
    /\ UNCHANGED <<gc, fc, vs, hnsw, sc, cleaner, closed, setBuf, waitCh, wg, freq, pc, op, ret, left, acc,
                   closeDone, now>>

\* the not-found branch of processOneSet
ProcAdd(w) ==
    /\ At(w, "add")
    /\ LET wr == worker[w]
       IN \E o \in GetCacheItem(cache) :
            LET S == Add(cache, wr.item.key, wr.item.value, wr.item.cost,
                         wr.item.expiration, o)
            IN /\ cache' = S
               /\ panicked' = S.panic
    /\ metrics' = Bump(Bump(metrics, "keysAdded", 1), "costAdded", worker[w].item.cost)
    /\ SetWorker(w, NextItem(worker[w]))
    /\ fired' = <<>>
    /\ UNCHANGED <<gc, fc, vs, hnsw, sc, cleaner, closed, setBuf, waitCh, wg, freq, pc, op, ret, left, acc,
                   closeDone, now>>

\* ------------------------------------------------------------------ ttlCleaner
\* the select of ttlCleaner: a tick (return when closed, else cleanupExpired
\* reads the clock and takes Items()), or waitCh closed (return); wg.Done and
\* ticker.Stop are deferred
CleanerSelect ==
    /\ ~panicked
    /\ cleaner.pc = "select"
    /\ \/ /\ cleaner.due
          /\ IF closed
             THEN /\ cleaner' = [cleaner EXCEPT !.pc = "done", !.due = FALSE]
                  /\ wg' = wg - 1
             ELSE /\ cleaner' = [cleaner EXCEPT !.pc = "sweep", !.due = FALSE,
                                                !.t = now, !.items = Items(cache)]
                  /\ UNCHANGED wg
       \/ /\ waitCh = "closed"
          /\ cleaner' = [cleaner EXCEPT !.pc = "done", !.due = FALSE]
          /\ wg' = wg - 1
    /\ fired' = <<>>
    /\ UNCHANGED <<gc, fc, vs, hnsw, sc, closed, setBuf, waitCh, cache, freq, metrics, worker, pc, op,
                   ret, left, acc, closeDone, panicked, now>>

\* one turn of the loop of cleanupExpired, or its end.  The item's fields are
\* read from the object as it is now; Cost is read after Delete.
cleanupExpired ==
    /\ ~panicked
    /\ cleaner.pc = "sweep"
    /\ IF cleaner.items = {}
       THEN /\ cleaner' = [cleaner EXCEPT !.pc = "select"]
            /\ fired' = <<>>
            /\ UNCHANGED <<cache, metrics>>
       ELSE \E p \in cleaner.items :
            LET item == cache.mem[p]
                d == IF item.Key = NoKey THEN <<cache, Nil, FALSE>>
                     ELSE Delete(cache, item.Key)
            IN /\ cleaner' = [cleaner EXCEPT !.items = @ \ {p}]
               /\ IF Expired(item, cleaner.t) /\ d[3]
                  THEN /\ cache' = d[1]
                       /\ metrics' = Bump(Bump(metrics, "keysEvicted", 1),
                                          "costEvicted", d[1].mem[p].Cost)
                       /\ fired' = <<Callback("onEvict", d[1].mem[p].Key, d[2],
                                              d[1].mem[p].Cost),
                                     Callback("onExit", NoKey, d[2], 0)>>
                  ELSE /\ fired' = <<>>
                       /\ UNCHANGED <<cache, metrics>>
    /\ UNCHANGED <<gc, fc, vs, hnsw, sc, closed, setBuf, waitCh, wg, freq, worker, pc, op, ret, left,
                   acc, closeDone, panicked, now>>

\* RistrettoCache.ttlCleaner
ttlCleaner == CleanerSelect \/ cleanupExpired

\* ------------------------------------------------------------------ gcRunner, doGC
\* int(a / b) of Go, which truncates toward zero
Quot(a, b) == IF a >= 0 THEN a \div b ELSE 0 - ((0 - a) \div b)

\* the last part of doGC: cleanupExpired when config.TTL > 0, which starts
\* by reading the clock and Items(); else doGC returns
FinalSweep(g) ==
    IF cleaner.ttl > 0
    THEN [g EXCEPT !.pc = "sweep", !.phase = 3, !.t = now, !.items = Items(cache)]
    ELSE [g EXCEPT !.pc = "select", !.phase = 0, !.items = {}]

\* a tick of the gcRunner: return when closed, else doGC up to its first
\* branch on the cost of the store
GcTick ==
    /\ ~panicked
    /\ gc.pc = "select"
    /\ IF (gc.sharded /\ sc.closed) \/ (~gc.sharded /\ closed)
       THEN gc' = [gc EXCEPT !.pc = "done"]
       ELSE IF MaxCost > 0
       THEN LET costPercent == Quot(cache.cost * 100, MaxCost)
                g == [gc EXCEPT !.costPercent = costPercent]
            IN gc' = IF costPercent > gc.gcMemThreshold
                     THEN [g EXCEPT !.pc = "sweep", !.phase = 1, !.t = now,
                                    !.items = Items(cache)]
                     ELSE FinalSweep(g)
       ELSE gc' = IF cleaner.ttl > 0
                  THEN [gc EXCEPT !.pc = "sweep", !.phase = 2, !.t = now,
                                  !.items = Items(cache)]
                  ELSE FinalSweep(gc)
    /\ fired' = <<>>
    /\ UNCHANGED <<fc, vs, hnsw, sc, cleaner, closed, setBuf, waitCh, wg, cache, freq, metrics,
                   worker, pc, op, ret, left, acc, closeDone, panicked, now>>

\* one turn of the loop of cleanupExpired run by doGC, or its end
GcSweep ==
    /\ ~panicked
    /\ gc.pc = "sweep"
    /\ IF gc.items = {}
       THEN /\ gc' = IF gc.phase = 1 THEN [gc EXCEPT !.pc = "over"]
                     ELSE IF gc.phase = 2 THEN FinalSweep(gc)
                     ELSE [gc EXCEPT !.pc = "select", !.phase = 0]
            /\ fired' = <<>>
            /\ UNCHANGED <<cache, metrics>>
       ELSE \E p \in gc.items :
            LET item == cache.mem[p]
                d == IF item.Key = NoKey THEN <<cache, Nil, FALSE>>
                     ELSE Delete(cache, item.Key)
            IN /\ gc' = [gc EXCEPT !.items = @ \ {p}]
               /\ IF Expired(item, gc.t) /\ d[3]
                  THEN /\ cache' = d[1]
                       /\ metrics' = Bump(Bump(metrics, "keysEvicted", 1),
                                          "costEvicted", d[1].mem[p].Cost)
                       /\ fired' = <<Callback("onEvict", d[1].mem[p].Key, d[2],
                                              d[1].mem[p].Cost),
                                     Callback("onExit", NoKey, d[2], 0)>>
                  ELSE /\ fired' = <<>>
                       /\ UNCHANGED <<cache, metrics>>
    /\ UNCHANGED <<fc, vs, hnsw, sc, cleaner, closed, setBuf, waitCh, wg, freq, worker, pc, op,
                   ret, left, acc, closeDone, panicked, now>>

\* evictOne run n times on the store: <<store, metrics, callbacks>>
RECURSIVE gcEvict(_, _, _, _)
gcEvict(S, m, cbs, n) ==
    IF n = 0 \/ S.panic THEN <<S, m, cbs>>
    ELSE IF S.len = 0 THEN gcEvict(S, m, cbs, n - 1)
    ELSE IF S.prev[Root] = Root THEN <<[S EXCEPT !.panic = TRUE], m, cbs>>
    ELSE LET e == S.prev[Root]
             item == S.mem[e]
         IN gcEvict(removeElement(S, e),
                    Bump(Bump(m, "keysEvicted", 1), "costEvicted", item.Cost),
                    cbs \o <<Callback("onEvict", item.Key, item.Value, item.Cost),
                              Callback("onExit", NoKey, item.Value, 0)>>,
                    n - 1)

\* the loop of doGC that evicts a tenth of the entries, at least one, while
\* the cost is over the budget: one turn, or its end
GcOver ==
    /\ ~panicked
    /\ gc.pc = "over"
    /\ IF cache.cost > MaxCost /\ LenOf(cache) > 0
       THEN LET toEvict == IF LenOf(cache) \div 10 < 1 THEN 1 ELSE LenOf(cache) \div 10
                r == gcEvict(cache, metrics, <<>>, toEvict)
            IN /\ cache' = r[1]
               /\ metrics' = r[2]
               /\ fired' = r[3]
               /\ panicked' = r[1].panic
               /\ UNCHANGED gc
       ELSE /\ gc' = FinalSweep(gc)
            /\ fired' = <<>>
            /\ UNCHANGED <<cache, metrics, panicked>>
    /\ UNCHANGED <<fc, vs, hnsw, sc, cleaner, closed, setBuf, waitCh, wg, freq, worker, pc, op,
                   ret, left, acc, closeDone, now>>

\* RistrettoCache.doGC under a gcRunner
doGC == GcTick \/ GcSweep \/ GcOver

\* ------------------------------------------------------------------ HNSW
\* what the calls of the index leave alone
engine == <<closed, setBuf, waitCh, wg, cache, freq, metrics, worker, pc, op, ret,
            fired, acc, closeDone, panicked, now, cleaner, sc, fc, gc>>
\* a caller starts a call of the index; the index runs it under its lock
Calls(c) == left[c] > 0 /\ left' = [left EXCEPT ![c] = @ - 1] /\ UNCHANGED engine

\* an update that puts a new node in the place of the old one
updateNodeAnew(x, id, vector) ==
    [x EXCEPT !.nodes[id] = NewHNSWNode(vector, @.level)]

\* HNSW.updateNode (the metadata of a node is its id)
updateNode(x, id, vector) ==
    [x EXCEPT !.nodes[id].Vector = vector]

\* HNSW.Get: <<vector, found>>
HNSWGet(x, id) ==
    IF ~x.nodes[id].in \/ x.nodes[id].deleted THEN <<NilVec, FALSE>>
    ELSE <<x.nodes[id].Vector, TRUE>>

\* HNSW.Add; level is what getLevel returns.  out.q records the vector.
HNSWAdd(c, id, vector, level) ==
    /\ Calls(c)
    /\ UNCHANGED vs
    /\ LET G0 == [hnsw.nodes EXCEPT ![id] = NewHNSWNode(vector, level)]
           out == [NoOut EXCEPT !.op = "add", !.id = id, !.q = vector]
       IN IF hnsw.nodes[id].in
          THEN hnsw' = [updateNode(hnsw, id, vector) EXCEPT !.out = out,
                                    !.gone = @ \ {id}]
          ELSE IF hnsw.entryPoint = NoId
          THEN hnsw' = [hnsw EXCEPT !.nodes = G0, !.entryPoint = id, !.maxLevel = level,
                                    !.count = @ + 1, !.out = out, !.gone = @ \ {id}]
          ELSE \E ep \in descend(G0, hnsw.metric, hnsw.entryPoint, vector, hnsw.maxLevel, level) :
               \E G \in insertAt(G0, hnsw.metric, id, ep, Min(level, hnsw.maxLevel)) :
                 hnsw' = [hnsw EXCEPT !.nodes = G, !.count = @ + 1, !.out = out,
                                !.gone = @ \ {id},
                                !.entryPoint = IF level > hnsw.maxLevel THEN id ELSE @,
                                !.maxLevel = IF level > @ THEN level ELSE @]

\* HNSW.Delete
HNSWDelete(c, id) ==
    /\ Calls(c)
    /\ UNCHANGED vs
    /\ LET out == [NoOut EXCEPT !.op = "delete", !.id = id]
       IN IF hnsw.nodes[id].in
          THEN hnsw' = [hnsw EXCEPT !.nodes[id].deleted = TRUE, !.count = @ - 1,
                                    !.out = out, !.gone = @ \cup {id}]
          ELSE hnsw' = [hnsw EXCEPT !.out = out, !.gone = @ \cup {id}]

\* HNSW.Clear
HNSWClear(c) ==
    /\ Calls(c)
    /\ UNCHANGED vs
    /\ hnsw' = [NewHNSW(hnsw.metric) EXCEPT !.out.op = "clear", !.gone = hnsw.gone]

\* HNSW.Search
HNSWSearch(c, query, k0) ==
    /\ Calls(c)
    /\ UNCHANGED vs
    /\ LET out == [NoOut EXCEPT !.op = "search", !.q = query, !.k = k0]
           k == IF k0 <= 0 THEN 10 ELSE k0
           ef == IF k < EFSearch THEN EFSearch ELSE k
       IN IF hnsw.entryPoint = NoId THEN hnsw' = [hnsw EXCEPT !.out = out]
          ELSE \E ep \in descend(hnsw.nodes, hnsw.metric, hnsw.entryPoint, query, hnsw.maxLevel, 0) :
               \E results \in searchLayer(hnsw.nodes, hnsw.metric, ep, query, ef, 0) :
                 LET first == SubSeq(results, 1, Min(k, Len(results)))
                     live == SelectSeq(first, LAMBDA i : Unmarked(hnsw, i))
                 IN hnsw' = [hnsw EXCEPT !.out = [out EXCEPT !.layer = results,
                            !.res = [j \in 1..Len(live) |-> HNSWResult(hnsw, query, live[j])]]]

\* HNSW.SearchWithFilter; the metadata of a node is its id, and filter is the
\* set of the metadata it accepts (all of them for a nil filter)
HNSWSearchWithFilter(c, query, k0, filter) ==
    /\ Calls(c)
    /\ UNCHANGED vs
    /\ LET out == [NoOut EXCEPT !.op = "searchWithFilter", !.q = query, !.k = k0]
           k == IF k0 <= 0 THEN 10 ELSE k0
           ef == IF k * 2 < EFSearch THEN EFSearch ELSE k * 2
       IN IF hnsw.entryPoint = NoId THEN hnsw' = [hnsw EXCEPT !.out = out]
          ELSE \E ep \in descend(hnsw.nodes, hnsw.metric, hnsw.entryPoint, query, hnsw.maxLevel, 0) :
               \E results \in searchLayer(hnsw.nodes, hnsw.metric, ep, query, ef, 0) :
                 LET pass == SelectSeq(results, LAMBDA i :
                                 Unmarked(hnsw, i) /\ i \in filter)
                     filtered == [j \in 1..Len(pass) |-> HNSWResult(hnsw, query, pass[j])]
                     sorted == exchangeSort(filtered, 1, 2, hnsw.metric = "ip")
                 IN hnsw' = [hnsw EXCEPT !.out = [out EXCEPT !.layer = results,
                            !.res = IF Len(filtered) > k THEN [j \in 1..k |-> sorted[j]]
                                    ELSE filtered]]

\* ------------------------------------------------------------------ vector store
\* VectorCache.Add on both stores: FlatSearch.Add of the shard's index
VectorAdd(c, id, vector) ==
    /\ Calls(c)
    /\ vs' = [vs EXCEPT !.items[id] = [in |-> TRUE, Vector |-> vector],
                        !.list[id] = [in |-> TRUE, Vector |-> vector],
                        !.out = [NoFound EXCEPT !.op = "add"]]
    /\ UNCHANGED hnsw

\* VectorCache.Delete on both stores: FlatSearch.Delete of the shard's index
VectorDelete(c, id) ==
    /\ Calls(c)
    /\ vs' = [vs EXCEPT !.items[id] = [in |-> FALSE, Vector |-> NilVec],
                        !.list[id] = [in |-> FALSE, Vector |-> NilVec],
                        !.out = [NoFound EXCEPT !.op = "delete"]]
    /\ UNCHANGED hnsw

\* VectorCache.Search on both stores
VectorSearch(c, query, k) ==
    /\ Calls(c)
    /\ \E single \in FlatSearch(vs.items, {i \in Ids : vs.items[i].in}, vs.metric, query, k),
          sharded \in shardedSearch(vs.items, vs.shardOf, vs.metric, query, k) :
         vs' = [vs EXCEPT !.out = [op |-> "search", q |-> query, k |-> k,
                                   single |-> single, sharded |-> sharded]]
    /\ UNCHANGED hnsw

\* VectorCache.Add and Delete of a single-shard store on its cache and its
\* index.  storeKey is "vec:" + id, and the cost of Add (4 bytes for each
\* coordinate and 64, no metadata) is counted in units of CostUnit bytes.
StoreKey == [i \in Ids |-> CASE i = "a" -> "k1" [] i = "b" -> "k2" [] OTHER -> "k3"]
IdOf(key) == CHOOSE i \in Ids : StoreKey[i] = key
VectorCost(vector) == (Len(vector) * 4 + 64) \div CostUnit

\* the cache call of an Add or Delete of c has returned and its index call
\* has not run yet
Unsynced(c) == pc[c] = "idle" /\ ret[c].op \in {"set", "del"} /\ vs.at # left[c]

\* VectorCache.Add: shard.cache.Set up to the select (SetSend is the rest)
StoreAdd(c, id, vector) ==
    /\ ~Unsynced(c)
    /\ SetBegin(c, StoreKey[id], "v1", VectorCost(vector))

\* VectorCache.Add: shard.index.Add, after the Set returned
StoreIndexAdd(c, vector) ==
    /\ Unsynced(c)
    /\ ret[c].op = "set"
    /\ vs' = [vs EXCEPT !.items[IdOf(ret[c].key)] = [in |-> TRUE, Vector |-> vector],
                        !.at = left[c]]
    /\ UNCHANGED <<engine, left, hnsw>>

\* VectorCache.Delete: shard.cache.Del
StoreDelete(c, id) ==
    /\ ~Unsynced(c)
    /\ Del(c, StoreKey[id])

\* VectorCache.Delete: shard.index.Delete, after the Del returned
StoreIndexDelete(c) ==
    /\ Unsynced(c)
    /\ ret[c].op = "del"
    /\ vs' = [vs EXCEPT !.items[IdOf(ret[c].key)] = [in |-> FALSE, Vector |-> NilVec],
                        !.at = left[c]]
    /\ UNCHANGED <<engine, left, hnsw>>

\* VectorCache.Get: found
StoreGet(id) == Get(cache, StoreKey[id], now)[2]

\* ------------------------------------------------------------------ legacy FastCache
\* what the calls of the FastCache leave alone
others == <<closed, setBuf, waitCh, wg, cache, freq, metrics, worker, pc, op, ret,
            fired, acc, closeDone, panicked, now, cleaner, sc, hnsw, vs, gc>>
\* a caller starts a call of the FastCache
FcCalls(c) == left[c] > 0 /\ left' = [left EXCEPT ![c] = @ - 1] /\ UNCHANGED others

\* FastCache.Set
FastCacheSet(c, key, value, exp) ==
    /\ FcCalls(c)
    /\ \E id \in ValueIds :
         /\ getValue(fc.ValueMap, id) = Nil
         /\ \A i \in DOMAIN fc.ValueMap.oldTable : listFind(fc.ValueMap.oldTable[i], id, 1) = 0
         /\ fc' = fcSet(fc, key, value, exp, id, now)

\* FastCache.Get
FastCacheGet(c, key) ==
    /\ FcCalls(c)
    /\ fc' = fcGet(fc, key, now)

\* FastCache.Delete
FastCacheDelete(c, key) ==
    /\ FcCalls(c)
    /\ fc' = fcDelete(fc, key, now)

\* FastCache.SetM2One
FastCacheSetM2One(c, keys, value, exp) ==
    /\ FcCalls(c)
    /\ \E id \in ValueIds :
         /\ getValue(fc.ValueMap, id) = Nil
         /\ \A i \in DOMAIN fc.ValueMap.oldTable : listFind(fc.ValueMap.oldTable[i], id, 1) = 0
         /\ fc' = fcSetM2One(fc, keys, value, exp, id, now)

\* VectorCache.SetItemCollector with the collector of the caller's list
VectorSetItemCollector(c) ==
    /\ Calls(c)
    /\ vs' = [vs EXCEPT !.itemCollector = "list",
                        !.out = [NoFound EXCEPT !.op = "setItemCollector"]]
    /\ UNCHANGED hnsw

\* VectorCache.BuildIndex on both stores: rebuildIndexFromCache
VectorBuildIndex(c) ==
    /\ Calls(c)
    /\ vs' = [vs EXCEPT !.items = AddAll(NoItems, collectAllItems(vs)),
                        !.out = [NoFound EXCEPT !.op = "buildIndex"]]
    /\ UNCHANGED hnsw

\* VectorCache.OptimizeIndex of the store with IndexType "hnsw", whose index
\* is hnsw and whose collector is the same: rebuildIndexFromCache, that is
\* HNSW.Clear and HNSW.Add of every item of collectAllItems, which has none
VectorOptimizeIndex(c) ==
    /\ Calls(c)
    /\ hnsw' = [NewHNSW(hnsw.metric) EXCEPT !.out.op = "optimizeIndex",
                                            !.gone = hnsw.gone]
    /\ vs' = [vs EXCEPT !.out = [NoFound EXCEPT !.op = "optimizeIndex"]]

\* VectorCache.Export of both stores, each followed by VectorCache.Import
\* into an empty store
VectorExportImport(c) ==
    /\ Calls(c)
    /\ vs' = [vs EXCEPT !.copy = AddAll(NoItems, GetAllItems(vs, 1)),
                        !.shardedCopy = AddAll(NoItems, GetAllItems(vs, ShardCount)),
                        !.out = [NoFound EXCEPT !.op = "import"]]
    /\ UNCHANGED hnsw

\* ------------------------------------------------------------------ specification
processOneSet(w) ==
    \/ ProcIncrement(w)
    \/ ProcNearCapacity(w)
    \/ ProcLen(w)
    \/ ProcSample(w)
    \/ ProcPick(w)
    \/ ProcSampleDelete(w)
    \/ ProcAvail(w)
    \/ ProcLoop(w)
    \/ EvictBack(w)
    \/ EvictRemove(w)
    \/ ProcGetItem(w)
    \/ ProcUpdate(w)
    \/ ProcAdd(w)

\* RistrettoCache.processSets
WorkerStep(w) ==
    \/ Select(w)
    \/ Drain(w)
    \/ processOneSet(w)

\* the operations of a caller, by kind
SetOps(c) ==
    \/ \E k \in Keys, v \in Values, cost \in Costs : SetBegin(c, k, v, cost)
    \/ SetSend(c)
GetOps(c) ==
    \/ \E k \in Keys : GetBegin(c, k)
    \/ GetEnd(c)
DelOps(c) == \E k \in Keys : Del(c, k)
CasOps(c) ==
    \/ \E k \in Keys, old \in Values, new \in Values, cost \in Costs :
          CasBegin(c, k, old, new, cost)
    \/ CasCompare(c)
WaitOps(c) ==
    \/ WaitBegin(c)
    \/ WaitSignal(c)
    \/ WaitJoin(c)
    \/ WaitMake(c)
    \/ WaitGo(c)
CloseOps(c) ==
    \/ CloseBegin(c)
    \/ CloseSignal(c)
    \/ CloseJoin(c)

Work == \E w \in Workers : WorkerStep(w)

\* every operation of the engine, one caller
Next ==
    \/ SetOps("c1")
    \/ GetOps("c1")
    \/ Exists("c1", "k1") \/ Exists("c1", "k2")
    \/ DelOps("c1")
    \/ ClearAll("c1")
    \/ CasOps("c1")
    \/ WaitOps("c1")
    \/ CloseOps("c1")
    \/ Work

Spec == Init /\ [][Next]_vars

\* set, get, del and wait, one caller
NextCore ==
    \/ SetOps("c1")
    \/ GetOps("c1")
    \/ DelOps("c1")
    \/ WaitOps("c1")
    \/ Work

SpecCore == Init /\ [][NextCore]_vars

\* set by one caller while another waits and closes
InitRace ==
    /\ InitEngine
    /\ sc = NewShardedCacheV2(FALSE)
    /\ hnsw = NewHNSW("l2")
    /\ fc = NewFastCacheWithMaxKeys(0)
    /\ gc = NoGc
    /\ vs = NewVectorStore("l2")
    /\ left = [c \in Callers |-> IF c = "c1" THEN RaceOps ELSE MaxOps]
NextRace ==
    \/ \E k \in Keys, cost \in {0, MaxCost} : SetBegin("c2", k, "v1", cost)
    \/ SetSend("c2")
    \/ WaitOps("c1")
    \/ CloseOps("c1")
    \/ Work

SpecRace == InitRace /\ [][NextRace]_vars

\* set, wait and get by one caller, costs within the budget
InitOrder ==
    /\ InitEngine
    /\ sc = NewShardedCacheV2(FALSE)
    /\ hnsw = NewHNSW("l2")
    /\ fc = NewFastCacheWithMaxKeys(0)
    /\ gc = NoGc
    /\ vs = NewVectorStore("l2")
    /\ left = [c \in Callers |-> IF c = "c1" THEN OrderOps ELSE 0]
NextOrder ==
    \/ \E k \in Keys, v \in Values, cost \in {0, MaxCost} : SetBegin("c1", k, v, cost)
    \/ SetSend("c1")
    \/ GetOps("c1")
    \/ WaitOps("c1")
    \/ Work

SpecOrder == InitOrder /\ [][NextOrder]_vars

\* set and close, of the shard and of the sharded cache, by one caller
InitClose ==
    /\ InitEngine
    /\ \E gcOn \in BOOLEAN : sc = NewShardedCacheV2(gcOn)
    /\ hnsw = NewHNSW("l2")
    /\ fc = NewFastCacheWithMaxKeys(0)
    /\ gc = NoGc
    /\ vs = NewVectorStore("l2")
    /\ left = [c \in Callers |-> IF c = "c1" THEN MaxOps ELSE 0]
ScCloseOps(c) ==
    \/ ScCloseBegin(c)
    \/ ScStop(c)
    \/ ScJoin(c)
NextClose ==
    \/ \E k \in Keys, cost \in {0, MaxCost} : SetBegin("c1", k, "v1", cost)
    \/ SetSend("c1")
    \/ CloseOps("c1")
    \/ ScCloseOps("c1")
    \/ ScGcReturn
    \/ Work

SpecClose == InitClose /\ [][NextClose]_vars

\* sets with a TTL and the reads, one caller, while the clock advances
TtlOps(c) ==
    \/ \E k \in Keys, cost \in {0, MaxCost} : SetWithTTL(c, k, "v1", cost, 1)
    \/ SetSend(c)
    \/ GetOps(c)
    \/ \E k \in Keys : GetWithTTLBegin(c, k)
    \/ GetWithTTLEnd(c)
    \/ \E k \in Keys : Exists(c, k)
    \/ MGetBegin(c, <<"k1", "k2">>)
    \/ MGetLook(c)
    \/ MGetRead(c)
NextTtl ==
    \/ TtlOps("c1")
    \/ Tick
    \/ \E w \in Workers : Select(w) \/ processOneSet(w)

SpecTtl == Init /\ [][NextTtl]_vars

\* a Frequency of each capacity of FreqCaps and increments of any key
InitFreq ==
    /\ \E n \in FreqCaps : NewRistrettoCacheWith(0, FALSE, n)
    /\ sc = NewShardedCacheV2(FALSE)
    /\ hnsw = NewHNSW("l2")
    /\ fc = NewFastCacheWithMaxKeys(0)
    /\ gc = NoGc
    /\ vs = NewVectorStore("l2")
    /\ left = [c \in Callers |-> 0]
\* Frequency.Increment(key)
FreqIncrement(key) ==
    /\ \E f \in Increment(freq, key) : freq' = f
    /\ UNCHANGED <<gc, fc, vs, hnsw, sc, cleaner, closed, setBuf, waitCh, wg, cache, metrics, worker,
                   pc, op, ret, left, fired, acc, closeDone, panicked, now>>
NextFreq == \E k \in KeySpace : FreqIncrement(k)

SpecFreq == InitFreq /\ [][NextFreq]_vars

\* the reads that return a remaining time, over entries with and without an
\* expiration
NextGetTtl ==
    \/ NextTtl
    \/ \E k \in Keys : SetBegin("c1", k, "v1", 1)
    \/ \E k \in Keys : GetTTLBegin("c1", k)
    \/ GetTTLEnd("c1")

SpecGetTtl == Init /\ [][NextGetTtl]_vars

\* a shard with a default TTL: sets with a TTL, gets and waits of one caller
\* while the clock advances and the ttlCleaner runs
InitSweep ==
    /\ NewRistrettoCache(DefaultTTL, FALSE)
    /\ sc = NewShardedCacheV2(FALSE)
    /\ hnsw = NewHNSW("l2")
    /\ fc = NewFastCacheWithMaxKeys(0)
    /\ gc = NoGc
    /\ vs = NewVectorStore("l2")
    /\ left = [c \in Callers |-> IF c = "c1" THEN MaxOps ELSE 0]
NextSweep ==
    \/ \E k \in Keys, cost \in {0, MaxCost} : SetWithTTL("c1", k, "v1", cost, 1)
    \/ SetSend("c1")
    \/ GetOps("c1")
    \/ WaitOps("c1")
    \/ Tick
    \/ Work
    \/ ttlCleaner

SpecSweep == InitSweep /\ [][NextSweep]_vars

\* one caller sets keys of cost 1 and gets them, each call made when the
\* admission queue is empty and the worker idle
InitLru ==
    /\ InitEngine
    /\ sc = NewShardedCacheV2(FALSE)
    /\ hnsw = NewHNSW("l2")
    /\ fc = NewFastCacheWithMaxKeys(0)
    /\ gc = NoGc
    /\ vs = NewVectorStore("l2")
    /\ left = [c \in Callers |-> IF c = "c1" THEN LruOps ELSE 0]
NextLru ==
    \/ Quiesced /\ \E k \in KeySpace : SetBegin("c1", k, "v1", 1)
    \/ SetSend("c1")
    \/ Quiesced /\ \E k \in KeySpace : GetBegin("c1", k)
    \/ GetEnd("c1")
    \/ \E w \in Workers : Select(w) \/ processOneSet(w)

SpecLru == InitLru /\ [][NextLru]_vars

\* a new shard: one caller sets keys of cost 1 and waits
InitFill ==
    /\ InitEngine
    /\ sc = NewShardedCacheV2(FALSE)
    /\ hnsw = NewHNSW("l2")
    /\ fc = NewFastCacheWithMaxKeys(0)
    /\ gc = NoGc
    /\ vs = NewVectorStore("l2")
    /\ left = [c \in Callers |-> IF c = "c1" THEN FillOps ELSE 0]
NextFill ==
    \/ \E k \in KeySpace : SetBegin("c1", k, "v1", 1)
    \/ SetSend("c1")
    \/ WaitOps("c1")
    \/ Work

SpecFill == InitFill /\ [][NextFill]_vars

\* an HNSW index of any metric: adds, deletes, clears and searches
InitHnsw ==
    /\ InitEngine
    /\ sc = NewShardedCacheV2(FALSE)
    /\ left = [c \in Callers |-> IF c = "c1" THEN HnswOps ELSE 0]
    /\ \E metric \in MetricTypes : hnsw = NewHNSW(metric)
    /\ fc = NewFastCacheWithMaxKeys(0)
    /\ gc = NoGc
    /\ vs = NewVectorStore("l2")
NextHnsw ==
    \/ \E id \in Ids, v \in Vecs, level \in Levels : HNSWAdd("c1", id, v, level)
    \/ \E id \in Ids : HNSWDelete("c1", id)
    \/ HNSWClear("c1")
    \/ \E q \in Vecs, k \in {1, 2} : HNSWSearch("c1", q, k)
    \/ \E q \in Vecs, filter \in {Ids, {"a", "b"}} :
          HNSWSearchWithFilter("c1", q, 1, filter)

SpecHnsw == InitHnsw /\ [][NextHnsw]_vars

\* a dataset in two vector stores with flat indexes, of any metric and with
\* any assignment of the ids to the shards
InitVector ==
    /\ InitEngine
    /\ sc = NewShardedCacheV2(FALSE)
    /\ hnsw = NewHNSW("l2")
    /\ fc = NewFastCacheWithMaxKeys(0)
    /\ gc = NoGc
    /\ left = [c \in Callers |-> IF c = "c1" THEN VecOps ELSE 0]
    /\ \E metric \in MetricTypes, shardOf \in [Ids -> 0..(ShardCount - 1)] :
         vs = [NewVectorStore(metric) EXCEPT !.shardOf = shardOf]
NextVector ==
    \/ \E id \in Ids, v \in Vecs : VectorAdd("c1", id, v)
    \/ \E id \in Ids : VectorDelete("c1", id)
    \/ \E q \in Vecs, k \in 0..2 : VectorSearch("c1", q, k)

SpecVector == InitVector /\ [][NextVector]_vars

\* a single-shard vector store with a flat index and its cache: adds,
\* deletes and waits of one caller
InitStore ==
    /\ InitEngine
    /\ sc = NewShardedCacheV2(FALSE)
    /\ hnsw = NewHNSW("l2")
    /\ fc = NewFastCacheWithMaxKeys(0)
    /\ gc = NoGc
    /\ left = [c \in Callers |-> IF c = "c1" THEN StoreOps ELSE 0]
    /\ vs = [NewVectorStore("l2") EXCEPT !.at = StoreOps]
NextStore ==
    \/ \E id \in Ids, v \in {<<1>>} : StoreAdd("c1", id, v)
    \/ SetSend("c1")
    \/ \E v \in {<<1>>} : StoreIndexAdd("c1", v)
    \/ \E id \in Ids : StoreDelete("c1", id)
    \/ StoreIndexDelete("c1")
    \/ ~Unsynced("c1") /\ WaitOps("c1")
    \/ Work

SpecStore == InitStore /\ [][NextStore]_vars

\* a flat index of any metric holding vectors of lengths 0 and 1, searched
\* with queries of lengths 0 and 1
InitMismatch ==
    /\ InitEngine
    /\ sc = NewShardedCacheV2(FALSE)
    /\ hnsw = NewHNSW("l2")
    /\ fc = NewFastCacheWithMaxKeys(0)
    /\ gc = NoGc
    /\ left = [c \in Callers |-> IF c = "c1" THEN VecOps ELSE 0]
    /\ \E metric \in MetricTypes : vs = NewVectorStore(metric)
NextMismatch ==
    \/ \E id \in Ids, v \in AnyVecs : VectorAdd("c1", id, v)
    \/ \E q \in AnyVecs, k \in {1, 2} : VectorSearch("c1", q, k)

SpecMismatch == InitMismatch /\ [][NextMismatch]_vars

\* a flat store and an HNSW store with the same items, a collector, rebuilds
\* of the indexes, and export and import
InitRebuild ==
    /\ InitEngine
    /\ sc = NewShardedCacheV2(FALSE)
    /\ hnsw = NewHNSW("l2")
    /\ fc = NewFastCacheWithMaxKeys(0)
    /\ gc = NoGc
    /\ left = [c \in Callers |-> IF c = "c1" THEN RebuildOps ELSE 0]
    /\ vs = NewVectorStore("l2")
NextRebuild ==
    \/ \E id \in Ids, v \in Vecs : VectorAdd("c1", id, v)
    \/ \E id \in Ids, v \in Vecs : HNSWAdd("c1", id, v, 0)
    \/ \E id \in Ids : VectorDelete("c1", id)
    \/ VectorSetItemCollector("c1")
    \/ VectorBuildIndex("c1")
    \/ VectorOptimizeIndex("c1")
    \/ VectorExportImport("c1")
    \/ \E q \in Vecs : VectorSearch("c1", q, 1)

SpecRebuild == InitRebuild /\ [][NextRebuild]_vars

\* one caller whose program is some sets and then set(k1, v, cost); del(k1);
\* wait()
InitProgram ==
    /\ InitEngine
    /\ sc = NewShardedCacheV2(FALSE)
    /\ hnsw = NewHNSW("l2")
    /\ vs = NewVectorStore("l2")
    /\ fc = NewFastCacheWithMaxKeys(0)
    /\ gc = NoGc
    /\ left = [c \in Callers |-> IF c = "c1" THEN ProgramLen ELSE 0]
NextProgram ==
    \/ /\ left["c1"] > 3
       /\ \E k \in Keys, v \in Values, cost \in Costs : SetBegin("c1", k, v, cost)
    \/ /\ left["c1"] = 3
       /\ \E v \in Values, cost \in Costs : SetBegin("c1", "k1", v, cost)
    \/ SetSend("c1")
    \/ left["c1"] = 2 /\ Del("c1", "k1")
    \/ left["c1"] = 1 /\ WaitBegin("c1")
    \/ WaitSignal("c1") \/ WaitJoin("c1") \/ WaitMake("c1") \/ WaitGo("c1")
    \/ Work

SpecProgram == InitProgram /\ [][NextProgram]_vars

\* caller c is inside a cas of key: past GetItem, before its return
InCas(c, key) == pc[c] \in {"cas2", "send"} /\ op[c].name = "cas" /\ op[c].key = key

\* two callers: c1 sets keys and then issues one cas of k1; c2 issues one cas
\* of k1 for the same old value while c1's cas is in progress
InitCas ==
    /\ InitEngine
    /\ sc = NewShardedCacheV2(FALSE)
    /\ hnsw = NewHNSW("l2")
    /\ vs = NewVectorStore("l2")
    /\ fc = NewFastCacheWithMaxKeys(0)
    /\ gc = NoGc
    /\ left = [c \in Callers |-> IF c = "c1" THEN CasLen ELSE 1]
NextCas ==
    \/ /\ left["c1"] > 1
       /\ \E k \in Keys, v \in Values, cost \in Costs : SetBegin("c1", k, v, cost)
    \/ SetSend("c1") \/ SetSend("c2")
    \/ /\ left["c1"] = 1
       /\ \E old \in Values, new \in Values : CasBegin("c1", "k1", old, new, 1)
    \/ /\ InCas("c1", "k1")
       /\ \E new \in Values : CasBegin("c2", "k1", op["c1"].old, new, 1)
    \/ CasCompare("c1") \/ CasCompare("c2")
    \/ \E w \in Workers : Select(w) \/ processOneSet(w)

SpecCas == InitCas /\ [][NextCas]_vars

\* two callers that wait and close, on a shard nobody sets
InitLifecycle ==
    /\ InitEngine
    /\ sc = NewShardedCacheV2(FALSE)
    /\ hnsw = NewHNSW("l2")
    /\ vs = NewVectorStore("l2")
    /\ fc = NewFastCacheWithMaxKeys(0)
    /\ gc = NoGc
    /\ left = [c \in Callers |-> LifeOps]
NextLifecycle ==
    \/ WaitOps("c1") \/ WaitOps("c2")
    \/ CloseOps("c1") \/ CloseOps("c2")
    \/ \E w \in Workers : Select(w) \/ Drain(w)

SpecLifecycle == InitLifecycle /\ [][NextLifecycle]_vars

\* an engine with a default TTL and a gcRunner, its own or the central one
\* of a sharded cache of one shard: sets with a TTL while the clock
\* advances and the ttlCleaner and the gcRunner run.  With GcOps sets no
\* incoming key is more frequent than a stored one, so the worker never
\* deletes a sampled key.
InitGc ==
    /\ hnsw = NewHNSW("l2")
    /\ vs = NewVectorStore("l2")
    /\ fc = NewFastCacheWithMaxKeys(0)
    /\ \E sharded \in BOOLEAN :
          /\ NewRistrettoCache(DefaultTTL, ~sharded)
          /\ sc = NewShardedCacheV2(sharded)
          /\ gc = NewGc(sharded, GcThreshold)
    /\ left = [c \in Callers |-> IF c = "c1" THEN GcOps ELSE 0]
NextGc ==
    \/ \E k \in Keys, cost \in {1, MaxCost} : SetWithTTL("c1", k, "v1", cost, 1)
    \/ SetSend("c1")
    \/ Tick
    \/ \E w \in Workers :
          \/ Select(w)
          \/ ProcIncrement(w) \/ ProcNearCapacity(w) \/ ProcLen(w) \/ ProcSample(w)
          \/ ProcPick(w) \/ ProcAvail(w) \/ ProcLoop(w) \/ EvictBack(w)
          \/ EvictRemove(w) \/ ProcGetItem(w) \/ ProcUpdate(w) \/ ProcAdd(w)
    \/ ttlCleaner
    \/ doGC

SpecGc == InitGc /\ [][NextGc]_vars

\* a legacy FastCache without a limit on its keys, whose tables expand
InitLegacy ==
    /\ InitEngine
    /\ sc = NewShardedCacheV2(FALSE)
    /\ hnsw = NewHNSW("l2")
    /\ vs = NewVectorStore("l2")
    /\ left = [c \in Callers |-> IF c = "c1" THEN FcOps ELSE 0]
    /\ fc = NewFastCacheWithMaxKeys(0)
    /\ gc = NoGc
NextLegacy ==
    \/ \E key \in {"k1", "k2", "k3"}, value \in Values : FastCacheSet("c1", key, value, 1)
    \/ \E key \in {"k1", "k2", "k3"} : FastCacheGet("c1", key)
    \/ \E key \in {"k1", "k2", "k3"} : FastCacheDelete("c1", key)

SpecLegacy == InitLegacy /\ [][NextLegacy]_vars

\* a legacy FastCache with MaxKeys keys at most
InitMaxKeys ==
    /\ InitEngine
    /\ sc = NewShardedCacheV2(FALSE)
    /\ hnsw = NewHNSW("l2")
    /\ vs = NewVectorStore("l2")
    /\ left = [c \in Callers |-> IF c = "c1" THEN FcOps ELSE 0]
    /\ fc = NewFastCacheWithMaxKeys(FcMaxKeys)
    /\ gc = NoGc
NextMaxKeys ==
    \/ \E key \in {"k1", "k2", "k3"} : FastCacheSet("c1", key, "v1", 1)
    \/ \E keys \in {<<"k1", "k2">>, <<"k1", "k2", "k3">>} :
          FastCacheSetM2One("c1", keys, "v2", 1)
    \/ \E key \in {"k1", "k2", "k3"} : FastCacheDelete("c1", key)

SpecMaxKeys == InitMaxKeys /\ [][NextMaxKeys]_vars

\* ------------------------------------------------------------------ properties
\* the sum of the costs of the entries of the store
EntryCost(S) == SumOver([o \in Objs |-> S.mem[o].Cost], Items(S))

\* C1: whenever the admission worker is idle, after any sequence of set, get,
\* del, cas and wait, the cost the store records equals the sum of the costs
\* of its entries, and is at most maxCost.
CostIsEntryCost ==
    (Quiesced /\ ~panicked) =>
        /\ cache.cost = EntryCost(cache)
        /\ cache.cost <= MaxCost

\* the items a Wait or Close found queued or in a worker's hands when it
\* signalled, and that are still there
Pending ==
    {i \in 1..Len(setBuf) : setBuf[i].pre}
    \cup {w \in Workers : worker[w].item.pre}
\* a Wait of caller c has returned on an open shard
Waited(c) == pc[c] = "idle" /\ ret[c].op = "wait" /\ ret[c].ok

\* C2: when wait returns on an open shard, every set that was accepted before
\* the wait has been taken off the queue and processed by the worker.
WaitDrains == \A c \in Callers : Waited(c) => Pending = {}
\* a wait that was called with accepted items outstanding has returned
WaitDrainsWitness == \E c \in Callers : Waited(c) /\ ~ret[c].quiet

\* caller c is at the select of a set and the queue is full
AtFullQueue(c) == pc[c] = "send" /\ Len(setBuf) >= BufCap
\* the step by which caller c leaves the select of a set
Sent(c) == pc[c] = "send" /\ pc'[c] # "send"

\* C3: a set never blocks on the queue: a caller at the select can always
\* take its step.  When the queue is full that step returns false, adds
\* exactly one to setsDropped, invokes no callback and leaves the store and
\* the queue as they were; and no step ever decreases setsDropped.
SetDropsWhenFull ==
    /\ [](\A c \in Callers : (pc[c] = "send" /\ ~panicked) => ENABLED SetSend(c))
    /\ [][/\ \A c \in Callers :
               (Sent(c) /\ AtFullQueue(c)) =>
                   /\ pc'[c] = "idle"
                   /\ ret'[c].op = "set" /\ ~ret'[c].ok
                   /\ ret'[c].cb = <<>> /\ fired' = <<>>
                   /\ metrics'.setsDropped = metrics.setsDropped + 1
                   /\ setBuf' = setBuf /\ cache' = cache /\ acc' = acc
            /\ metrics'.setsDropped >= metrics.setsDropped]_vars
\* a set within the budget has just been dropped on a full queue
SetDropsWitness ==
    \E c \in Callers :
        /\ pc[c] = "idle" /\ ret[c].op = "set" /\ ~ret[c].ok
        /\ ret[c].cost <= MaxCost /\ ~closed
        /\ Len(setBuf) = BufCap /\ metrics.setsDropped = 1

\* the step by which caller c calls set with a cost over the budget of an
\* open shard
SetsOverCost(c) ==
    /\ pc[c] = "idle" /\ left'[c] < left[c] /\ ~closed
    /\ \/ pc'[c] = "send" /\ op'[c].name = "set" /\ op'[c].cost > MaxCost
       \/ pc'[c] = "idle" /\ ret'[c].op = "set" /\ ret'[c].cost > MaxCost

\* C4: a set whose cost exceeds maxCost returns false at once, adds one to
\* setsRejected and enqueues nothing; no queued item, item being processed
\* or stored entry ever has a cost over maxCost.
SetRejectsOverCost ==
    /\ [](/\ \A i \in 1..Len(setBuf) : setBuf[i].cost <= MaxCost
          /\ \A w \in Workers : worker[w].item.cost <= MaxCost
          /\ \A o \in Items(cache) : cache.mem[o].Cost <= MaxCost
          /\ \A c \in Callers :
                (ret[c].op = "set" /\ ret[c].cost > MaxCost) => ~ret[c].ok)
    /\ [][\A c \in Callers :
             SetsOverCost(c) =>
                 /\ pc'[c] = "idle" /\ ~ret'[c].ok
                 /\ metrics'.setsRejected = metrics.setsRejected + 1
                 /\ setBuf' = setBuf /\ cache' = cache /\ acc' = acc]_vars
\* a set over the budget has returned false and been counted
SetRejectsWitness ==
    \E c \in Callers :
        /\ pc[c] = "idle" /\ ret[c].op = "set" /\ ret[c].cost > MaxCost
        /\ ~ret[c].ok /\ metrics.setsRejected >= 1

\* caller c has read key k back, with nothing queued or being processed
ReadBack(c, k) ==
    /\ pc[c] = "idle" /\ ret[c].op = "get" /\ ret[c].key = k
    /\ ret[c].ok /\ ret[c].quiet

\* C5: the sets of one caller to one key take effect in the order they were
\* accepted: once they are processed (after a wait, or with the worker idle)
\* a get of the key that hits returns the value of the last accepted set,
\* never an earlier one; the same holds for the entry the store holds.
LastSetWins ==
    /\ \A c \in Callers, k \in Keys :
          (ReadBack(c, k) /\ acc[k] # <<>>) => ret[c].val = Back(acc[k])
    /\ (Quiesced /\ ~panicked) =>
          \A k \in Keys :
             (Held(cache, k) # Nil /\ acc[k] # <<>>) => Held(cache, k) = Back(acc[k])
\* set(k, v1) and set(k, v2) were accepted and a get of k has returned v2
LastSetWinsWitness ==
    \E c \in Callers, k \in Keys :
        /\ ReadBack(c, k)
        /\ acc[k] = <<"v1", "v2">> /\ ret[c].val = "v2"

\* every worker goroutine has returned
WorkersExited == \A w \in Workers : worker[w].pc \in {"none", "done"}

\* C6: once close has returned, every set that returned true, the ones racing
\* with the close included, has been processed: the queue is empty, nothing
\* is in a worker's hands, and the worker has exited.
CloseDrains ==
    closeDone => (setBuf = <<>> /\ WorkersExited /\ wg = 0)

\* C7: an operation that starts after close has returned is a no-op: set,
\* cas and wait return false, get and exists miss, del and clear leave the
\* store unchanged, and no callback is invoked.
ClosedIsNoOp ==
    \A c \in Callers :
        (pc[c] = "idle" /\ ret[c].late) => (~ret[c].ok /\ ret[c].cb = <<>>)

\* the step by which caller c calls close on a shard whose closed flag is
\* already set
ClosesAgain(c) ==
    /\ pc[c] = "idle" /\ left'[c] < left[c] /\ closed
    /\ \/ pc'[c] = "idle" /\ ret'[c].op = "close"
       \/ pc'[c] # "idle" /\ op'[c].name = "close"
\* the same for the sharded cache
ScClosesAgain(c) ==
    /\ pc[c] = "idle" /\ left'[c] < left[c] /\ sc.closed
    /\ \/ pc'[c] = "idle" /\ ret'[c].op = "scclose"
       \/ pc'[c] # "idle" /\ op'[c].name = "scclose"

\* C8: close is idempotent, on the shard and on the sharded cache: a second
\* or later close returns in its first step, without signalling or joining
\* anything, and changes no part of the state.
CloseIsIdempotent ==
    [][\A c \in Callers :
          (ClosesAgain(c) \/ ScClosesAgain(c)) =>
              /\ pc'[c] = "idle"
              /\ UNCHANGED <<closed, setBuf, waitCh, wg, cache, freq, metrics,
                             worker, acc, closeDone, panicked, sc>>]_vars
\* a close, of the shard or of the sharded cache, has returned without doing
\* the closing: the sharded cache was closed and an earlier close had returned
CloseIsIdempotentWitness ==
    \E c \in Callers :
        /\ pc[c] = "idle" /\ ret[c].op \in {"close", "scclose"}
        /\ ~ret[c].ok /\ ret[c].late /\ sc.closed

\* C9: del of a key that is present removes the entry before it returns and,
\* with onExit configured, invokes onExit exactly once, with the value that
\* was removed.
DelCallsOnExit ==
    \A c \in Callers :
        (pc[c] = "idle" /\ ret[c].op = "del" /\ ret[c].was # Nil) =>
            /\ ret[c].ok
            /\ ret[c].cb = <<Callback("onExit", NoKey, ret[c].was, 0)>>

\* the step by which caller c's cas compares
Compares(c) == pc[c] = "cas2" /\ pc'[c] # "cas2"
\* caller c's cas returned false and changed nothing
CasFails(c) ==
    /\ pc'[c] = "idle" /\ ret'[c].op = "cas" /\ ~ret'[c].ok
    /\ ret'[c].cb = <<>>
    /\ setBuf' = setBuf /\ cache' = cache /\ acc' = acc /\ metrics' = metrics

\* C10: cas(k, old, new, cost) returns false and enqueues nothing when k is
\* absent or holds a value other than old; when k holds old, in the entry
\* cas looked up, it goes on as a set of new does (rejected over budget, else to the select of the queue)
\* and returns what that set returns, so that once it is processed a get of
\* k that hits returns the last accepted value.
CasComparesThenSets ==
    /\ [][\A c \in Callers :
             /\ (Compares(c) /\ Held(cache, op[c].key) # op[c].old) => CasFails(c)
             /\ (Compares(c) /\ Held(cache, op[c].key) = op[c].old /\ ~closed
                    /\ cache.items[op[c].key] = op[c].ptr) =>
                    IF op[c].cost > MaxCost
                    THEN /\ pc'[c] = "idle" /\ ~ret'[c].ok
                         /\ metrics'.setsRejected = metrics.setsRejected + 1
                         /\ setBuf' = setBuf
                    ELSE /\ pc'[c] = "send"
                         /\ op'[c].key = op[c].key /\ op'[c].value = op[c].value
             /\ (pc[c] = "idle" /\ left'[c] < left[c] /\ pc'[c] = "idle"
                    /\ ret'[c].op = "cas") => CasFails(c)]_vars
    /\ [](\A c \in Callers :
             /\ (pc[c] = "idle" /\ ret[c].op = "cas" /\ ret[c].was # ret[c].old)
                    => ~ret[c].ok
             /\ (pc[c] = "idle" /\ ret[c].op = "cas" /\ ret[c].ok)
                    => Back(acc[ret[c].key]) = ret[c].val)

\* an answer of a read to one key
Answers(c) == IF ret[c].op \in {"get", "getWithTtl", "exists", "mget"}
              THEN ret[c].looks ELSE {}
\* the entry a read looked at had an expiration that had passed
Passed(l) == l.present /\ l.exp > 0 /\ l.at > l.exp
\* the keys a read returned
Returned(c) == IF ret[c].op = "mget" THEN {kv[1] : kv \in ret[c].res}
               ELSE IF ret[c].ok THEN {ret[c].key} ELSE {}
\* caller c takes the step of get, getWithTtl or mget that looks key up, and
\* finds the entry expired
GetsExpired(c, key) ==
    /\ ~closed
    /\ \/ pc[c] = "idle" /\ left'[c] < left[c] /\ pc'[c] = "idle"
          /\ ret'[c].op \in {"get", "getWithTtl"} /\ ret'[c].key = key
       \/ pc[c] = "mget" /\ op[c].keys # <<>> /\ op'[c] # op[c]
          /\ Head(op[c].keys) = key
    /\ cache.items[key] # NilPtr
    /\ cache.mem[cache.items[key]].Expiration > 0
    /\ now > cache.mem[cache.items[key]].Expiration

\* C11: an entry set with a TTL is returned by get while its expiration has not
\* passed, and is never returned by get, getWithTtl, mget or exists once it
\* has; a get that finds it expired removes it and subtracts its cost
ExpiredIsNeverReturned ==
    /\ [](\A c \in Callers : \A l \in Answers(c) :
            /\ l.found <=> l.present /\ ~Passed(l)
            /\ l.found <=> l.key \in Returned(c))
    /\ [][\A c \in Callers, key \in Keys :
            GetsExpired(c, key) =>
              /\ cache'.items[key] = NilPtr
              /\ cache'.cost = cache.cost - cache.mem[cache.items[key]].Cost
              /\ ~InSeq(cache'.list, cache.items[key])]_vars
\* after a hit, a get found the entry of its key expired: it missed and the
\* entry is gone
ExpiredIsNeverReturnedWitness ==
    \E c \in Callers : \E l \in Answers(c) :
        /\ ret[c].op = "get"
        /\ Passed(l) /\ ~l.found
        /\ cache.items[l.key] = NilPtr
        /\ metrics.hits > 0

\* the ttlCleaner examines an entry of the store whose expiration has passed
SweepsExpired(key) ==
    /\ cleaner.pc = "sweep"
    /\ cache.items[key] # NilPtr
    /\ cache.items[key] \in cleaner.items \ cleaner'.items
    /\ cache.mem[cache.items[key]].Expiration > 0
    /\ now > cache.mem[cache.items[key]].Expiration

\* C12: on a shard with a default TTL the sweeper fires every ttl/2 for as long
\* as the shard is open, whatever sets, gets and waits were called: the last
\* sweep started less than ttl/2 ago or one is due, and a sweep removes every
\* entry whose expiration has passed and counts it as evicted
SweeperKeepsFiring ==
    /\ [](cleaner.ttl > 0 /\ ~closed =>
            cleaner.due \/ now - cleaner.t < cleaner.ttl \div 2)
    /\ [][\A key \in Keys :
            SweepsExpired(key) =>
              /\ cache'.items[key] = NilPtr
              /\ metrics'.keysEvicted = metrics.keysEvicted + 1
              /\ metrics'.costEvicted =
                   metrics.costEvicted + cache.mem[cache.items[key]].Cost]_vars

\* the store is exactly full of entries of one cost, and the worker holds a set
\* of that cost for a key the store does not have
FullOfEqualCost(w) ==
    /\ worker[w].item # NoItem
    /\ cache.items[worker[w].item.key] = NilPtr
    /\ cache.cost = MaxCost
    /\ \A k \in KeySpace : cache.items[k] # NilPtr =>
          cache.mem[cache.items[k]].Cost = worker[w].item.cost

\* C13: eviction follows least-recently-used order, a get that hits refreshing
\* recency: the get moves its entry to the front of the recency order, and
\* when equal-cost entries exactly fill the shard the set of a new key removes
\* the entry at the back of that order and no other
EvictsLeastRecentlyUsed ==
    /\ [][\A c \in Callers :
            (pc[c] = "idle" /\ pc'[c] = "get2") =>
               Front(cache'.list) = cache.items[op'[c].key]]_vars
    /\ [][\A w \in Workers, k \in KeySpace :
            (/\ FullOfEqualCost(w)
             /\ worker'[w] # worker[w]
             /\ cache.items[k] # NilPtr
             /\ cache'.items[k] = NilPtr) =>
               cache.items[k] = Back(cache.list)]_vars

\* the keys of the accepted sets
KeysSet == {k \in KeySpace : acc[k] # <<>>}
\* wait has returned to c after sets of more than maxCost distinct keys of cost
\* 1, each key set once and every set accepted, and c has called nothing since
FilledAndWaited(c) ==
    /\ pc[c] = "idle"
    /\ ret[c].op = "wait" /\ ret[c].ok
    /\ metrics.setsDropped = 0 /\ metrics.setsRejected = 0
    /\ \A k \in KeySpace : Len(acc[k]) <= 1
    /\ Cardinality(KeysSet) > MaxCost

Searched == hnsw.out.op \in {"search", "searchWithFilter"}
\* the ids the last search returned
ResultIds == {hnsw.out.res[j].ID : j \in 1..Len(hnsw.out.res)}

\* C15: after delete(id) no search and no searchWithFilter returns id until it
\* is added again, also when id is the entry point or the only node
DeletedIsNotReturned == Searched => ResultIds \cap hnsw.gone = {}
\* a search from a deleted entry point returned other nodes
DeletedIsNotReturnedWitness ==
    /\ Searched
    /\ hnsw.entryPoint \in hnsw.gone
    /\ hnsw.out.layer # <<>> /\ hnsw.out.layer[1] \in hnsw.gone
    /\ ResultIds # {}

\* the nodes of the index that are not deleted
LiveNodes == {i \in Ids : hnsw.nodes[i].in /\ ~hnsw.nodes[i].deleted}

\* C16: after any add, delete or clear the entry point is the highest-level
\* node that is not deleted; when the index is empty or all its nodes are
\* deleted there is no entry point and every search returns nothing
EntryPointIsHighestLive ==
    IF LiveNodes = {}
    THEN hnsw.entryPoint = NoId /\ (Searched => hnsw.out.res = <<>>)
    ELSE /\ hnsw.entryPoint \in LiveNodes
         /\ \A i \in LiveNodes : hnsw.nodes[i].level <= hnsw.nodes[hnsw.entryPoint].level

\* C17: after every completed add every node that is not deleted has a
\* neighbor set for each level 0..level, and none of them has more than M
\* neighbors
NeighborsAtMostM ==
    \A i \in LiveNodes :
        /\ hnsw.nodes[i].level \in Levels
        /\ \A l \in Levels :
              IF l <= hnsw.nodes[i].level
              THEN /\ hnsw.nodes[i].neighbors[l] \subseteq Ids
                   /\ Cardinality(hnsw.nodes[i].neighbors[l]) <= M
              ELSE hnsw.nodes[i].neighbors[l] = {}
\* an add has connected a third node: each of the three nodes has M neighbors
\* at level 0
NeighborsAtMostMWitness ==
    /\ hnsw.out.op = "add"
    /\ Cardinality(LiveNodes) = M + 2
    /\ \A i \in LiveNodes : Cardinality(hnsw.nodes[i].neighbors[0]) = M

\* the distance of node i to the query of the last search
QueryDist(i) == GetDistanceFunc(hnsw.metric, hnsw.nodes[i].Vector, hnsw.out.q)

\* C18: search(q, k) returns at most k nodes, none deleted, best first
\* (ascending distance for L2 and cosine, descending inner product for IP),
\* and the searchLayer under it returns at most ef nodes in ascending distance,
\* the nearest first
SearchIsBestFirst ==
    hnsw.out.op = "search" =>
      LET res == hnsw.out.res
          layer == hnsw.out.layer
          k == IF hnsw.out.k <= 0 THEN 10 ELSE hnsw.out.k
          ef == IF k < EFSearch THEN EFSearch ELSE k
      IN /\ Len(res) <= k
         /\ \A j \in 1..Len(res) : res[j].ID \in LiveNodes
         /\ \A j \in 1..(Len(res) - 1) :
               IF hnsw.metric = "ip" THEN res[j].Score >= res[j + 1].Score
               ELSE res[j].Score <= res[j + 1].Score
         /\ Len(layer) <= ef
         /\ \A j \in 1..(Len(layer) - 1) : QueryDist(layer[j]) <= QueryDist(layer[j + 1])


\* the ids the stores hold, and the inner product of the last query with the
\* vector stored under id
Stored == {i \in Ids : vs.items[i].in}
InnerProduct(id) == Dot(vs.out.q, vs.items[id].Vector)
VectorSearched == vs.out.op = "search"
IdsOf(results) == {results[i].ID : i \in 1..Len(results)}

\* C19: a flat search(q, k) returns min(k, n) of the n stored items (a k of 0
\* or less counts as 10); under L2 and cosine they are in ascending distance
\* and no item left out is nearer than a returned one; under IP they are in
\* descending inner product and no item left out has a larger inner product
\* than a returned one.
FlatSearchIsBestFirst ==
    VectorSearched =>
        LET res == vs.out.single
            k == IF vs.out.k <= 0 THEN 10 ELSE vs.out.k
            n == Cardinality(Stored)
            Worth(id) == IF vs.metric = "ip" THEN 0 - InnerProduct(id)
                         ELSE GetDistanceFunc(vs.metric, vs.out.q, vs.items[id].Vector)
        IN /\ Len(res) = (IF k < n THEN k ELSE n)
           /\ IdsOf(res) \subseteq Stored
           /\ Cardinality(IdsOf(res)) = Len(res)
           /\ \A i \in 1..(Len(res) - 1) : Worth(res[i].ID) <= Worth(res[i + 1].ID)
           /\ \A i \in 1..Len(res) : \A id \in Stored \ IdsOf(res) :
                  Worth(res[i].ID) <= Worth(id)

\* no two stored items are equally far from the last query
NoTies ==
    \A a, b \in Stored :
        a # b => GetDistanceFunc(vs.metric, vs.out.q, vs.items[a].Vector)
                 # GetDistanceFunc(vs.metric, vs.out.q, vs.items[b].Vector)

\* C20: when no two stored items tie, a search(q, k) of the sharded store
\* returns the same set of ids as the search of the single-shard store holding
\* the same dataset, for every k the single-shard store accepts.
ShardedSearchSameTopK ==
    VectorSearched /\ NoTies => IdsOf(vs.out.sharded) = IdsOf(vs.out.single)

\* the result at position i of the last flat search is of a stored vector as
\* long as the query
Matches(i) == Len(vs.items[vs.out.single[i].ID].Vector) = Len(vs.out.q)

\* C21: in the results of a flat search a stored vector whose length differs
\* from the query's has the score MaxFloat32 and comes after every stored
\* vector of the query's length: none of these is behind it in the results,
\* and none of these is left out when it is returned.
MismatchRanksLast ==
    VectorSearched =>
        LET res == vs.out.single
        IN \A i \in 1..Len(res) :
              ~Matches(i) =>
                  /\ res[i].Score = MaxFloat32
                  /\ \A j \in 1..Len(res) : Matches(j) => j < i
                  /\ \A id \in Stored \ IdsOf(res) :
                         Len(vs.items[id].Vector) # Len(vs.out.q)


\* C22: with a collector installed, buildIndex leaves the flat index holding
\* exactly the items the collector returns, and optimizeIndex leaves the HNSW
\* index holding exactly those items too.
RebuildHoldsCollected ==
    /\ vs.out.op = "buildIndex" /\ vs.itemCollector # "nil" => vs.items = vs.list
    /\ vs.out.op = "optimizeIndex" /\ vs.itemCollector # "nil" =>
           \A id \in Ids : /\ hnsw.nodes[id].in = vs.list[id].in
                           /\ vs.list[id].in => hnsw.nodes[id].Vector = vs.list[id].Vector

\* C23: after export and import into an empty store, the importing store
\* holds the same ids with the same vectors as the exporting store, for the
\* single-shard store and for the sharded store.
ImportOfExportIsSame ==
    vs.out.op = "import" => vs.copy = vs.items /\ vs.shardedCopy = vs.items


\* C24: a Get of a key that was stored by Set and has not been deleted or
\* evicted since (nothing expires: the clock stands still) returns the value
\* last set for it.
StoredKeyIsReturned ==
    fc.out.op = "get" /\ fc.out.live # Nil =>
        fc.out.ok /\ fc.out.value = fc.out.live

\* the keys a Get of the FastCache would find
LiveKeys == {k \in KeySpace : akGet(fc.KeyMap, k, now)[2]}

\* C25: with MaxKeys > 0 the cache never holds more than MaxKeys distinct
\* live keys.
AtMostMaxKeys ==
    fc.MaxKeys > 0 => Cardinality(LiveKeys) <= fc.MaxKeys


\* C26: the store is mutated only under its write lock, so evictOne is one
\* step inside the store: while a worker is between its read of the tail of
\* the list and its RemoveElement, no step of anyone else changes the store's
\* list, map or cost.
EvictionHoldsTheLock ==
    [][\A w \in Workers :
          worker[w].pc = "remove" /\ worker'[w].pc = "remove" => cache' = cache]_vars


\* C27: when a caller's set(k1, v) was accepted and the caller then issued
\* del(k1) and wait, k1 is absent from the store once the wait has returned.
DelAfterSetWins ==
    (/\ left["c1"] = 0 /\ pc["c1"] = "idle" /\ ret["c1"].op = "wait"
     /\ acc["k1"] # <<>>)
    => Held(cache, "k1") = Nil

\* caller c's cas returned true
CasWon(c) == pc[c] = "idle" /\ ret[c].op = "cas" /\ ret[c].ok

\* C28: when two callers concurrently issue cas(k, old, a) and cas(k, old, b)
\* while k holds old, at most one of them returns true.
CasIsAtomic == ~(CasWon("c1") /\ CasWon("c2"))

\* the admission workers that are running
Running == {w \in Workers : worker[w].pc \notin {"none", "done"}}
\* caller c is inside a wait
InWait(c) == pc[c] \in {"wait_signal", "wait_join", "wait_make", "wait_go"}
\* caller c waits for the workers to return, and nothing can make them
Blocked(c) ==
    /\ pc[c] \in {"wait_join", "close_join"}
    /\ wg > 0 /\ waitCh = "open" /\ setBuf = <<>>
    /\ \A w \in Running : worker[w].pc = "select"
    /\ \A d \in Callers \ {c} : pc[d] = "idle" /\ left[d] = 0

\* C29: concurrent calls to wait and/or close on one shard are safe: the
\* wait signal channel is never closed twice (no call panics), no call
\* blocks forever, and whenever the shard is open and no wait is in
\* progress exactly one admission worker is running.
WaitAndCloseAreSafe ==
    /\ ~panicked
    /\ \A c \in Callers : ~Blocked(c)
    /\ (~closed /\ \A c \in Callers : ~InWait(c)) => Cardinality(Running) = 1

\* the onExit invocations with value v among the callbacks cbs
ExitsIn(cbs, v) ==
    Cardinality({i \in DOMAIN cbs : cbs[i].cb = "onExit" /\ cbs[i].value = v})
\* caller c's operation returns in this step
Completes(c) == pc'[c] = "idle" /\ (pc[c] # "idle" \/ left'[c] < left[c])
\* the onExit invocations with value v of this step
ExitsFor(v) ==
    ExitsIn(fired', v)
    + (IF Completes("c1") THEN ExitsIn(ret'["c1"].cb, v) ELSE 0)
    + (IF Completes("c2") THEN ExitsIn(ret'["c2"].cb, v) ELSE 0)
\* this step is the update of processOneSet writing over the entry of key
Replaces(key) ==
    \E w \in Workers : /\ worker[w].pc = "update" /\ worker'[w].pc # "update"
                        /\ cache.items[key] = worker[w].ptr
\* the value key holds leaves the store in this step
Leaves(key) ==
    /\ cache.items[key] # NilPtr
    /\ cache'.items[key] = NilPtr \/ Replaces(key)
LeavingWith(v) == {k \in KeySpace : Leaves(k) /\ Held(cache, k) = v}

\* C30: onExit is invoked exactly once for every value that leaves the
\* store (LRU eviction, sampled-admission deletion, replacement on update,
\* TTL expiry, del, clear) and never for a value that is still stored: an
\* invocation beyond the values that leave is for the value of a set that
\* was refused, which the store never held.
OnExitOncePerLeaving ==
    [][\A v \in Values :
          /\ LeavingWith(v) # {} => ExitsFor(v) = Cardinality(LeavingWith(v))
          /\ ExitsFor(v) > Cardinality(LeavingWith(v)) =>
                 /\ cache' = cache
                 /\ \E c \in Callers : Completes(c) /\ ~ret'[c].ok]_vars

\* the positions of the recency list
ListPos == 1..Len(cache.list)
\* C31: the recency list and the key map of the LRU store hold the same
\* entries: each list element's key maps to that element, each mapped
\* entry is linked in the list exactly once, and no key occurs twice.
ListMatchesMap ==
    /\ \A i \in ListPos :
          /\ cache.mem[cache.list[i]].Key \in KeySpace
          /\ cache.items[cache.mem[cache.list[i]].Key] = cache.list[i]
    /\ \A k \in KeySpace :
          cache.items[k] # NilPtr =>
              Cardinality({i \in ListPos : cache.list[i] = cache.items[k]}) = 1
    /\ \A i, j \in ListPos :
          i # j => cache.mem[cache.list[i]].Key # cache.mem[cache.list[j]].Key

\* worker w takes a step from the place from to the place to
\* o has the least frequency of a sample of the snapshot of worker w
LeastOfSample(w, o) ==
    \E sample \in SUBSET worker[w].snap :
       /\ Cardinality(sample) = Min(SampleSize, Cardinality(worker[w].snap))
       /\ o \in sample
       /\ \A x \in sample : SampledFreq(o) <= SampledFreq(x)

\* C32: the admission worker deletes a sampled victim only when the cost
\* of the store exceeds 70% of maxCost, the store is not empty and the
\* frequency of the incoming key is strictly greater than the least
\* frequency among the (up to 5) sampled keys; the victim is that sampled
\* key of least frequency, and otherwise the sampling step removes nothing.
SamplingDeletesTheLeast ==
    [][\A w \in Workers :
          /\ worker'[w].pc = "len" /\ worker[w].pc # "len" =>
                 worker[w].pc = "cost" /\ 10 * cache.cost > 7 * MaxCost
          /\ worker'[w].pc = "sample" /\ worker[w].pc # "sample" =>
                 worker[w].pc = "len" /\ LenOf(cache) > 0
          /\ worker'[w].pc = "pick" /\ worker[w].pc # "pick" =>
                 /\ worker[w].pc = "sample"
                 /\ worker'[w].currentFreq = FreqGet(freq, worker[w].item.key)
                 /\ worker'[w].snap = Items(cache)
          /\ worker'[w].pc = "sdel" /\ worker[w].pc # "sdel" =>
                 /\ worker[w].pc = "pick"
                 /\ worker'[w].evictKey \in KeySpace
                 /\ \E o \in worker[w].snap :
                       /\ cache.mem[o].Key = worker'[w].evictKey
                       /\ LeastOfSample(w, o)
                       /\ worker[w].currentFreq > SampledFreq(o)
          /\ worker[w].pc \in {"cost", "len", "sample", "pick"}
                 /\ worker'[w].pc # worker[w].pc => cache' = cache
          /\ worker[w].pc = "sdel" /\ worker'[w].pc # "sdel" =>
                 /\ cache'.items[worker[w].evictKey] = NilPtr
                 /\ \A k \in KeySpace \ {worker[w].evictKey} :
                        cache'.items[k] = cache.items[k]]_vars

\* the worker is past a sampling step that deleted its victim: the store
\* holds fewer entries than were added and not evicted (no entry is
\* deleted, cleared or expired in these runs)
SamplingDeleted ==
    \E w \in Workers :
       /\ worker[w].pc = "avail"
       /\ metrics.keysAdded - metrics.keysEvicted > LenOf(cache)

\* C33: a GC tick changes the store only when 100 * cost / maxCost exceeds
\* the configured gcMemThreshold: a doGC that found the cost at or below
\* the threshold leaves entries, cost and metrics unchanged, for a
\* standalone engine and for the shard of a sharded cache driven by the
\* central ticker with the threshold the sharded cache was configured with.
GcBelowThresholdIsIdle ==
    [][(gc' # gc /\ gc.pc \in {"sweep", "over"}
          /\ gc.costPercent <= gc.configured) =>
          /\ cache'.items = cache.items /\ cache'.cost = cache.cost
          /\ metrics' = metrics]_vars

\* C34: getWithTtl and getTtl behave like get: a call that finds a live entry
\* returns found and counts one hit, a call that finds none returns not found
\* and counts one miss, and the remaining time of an entry without
\* expiration is 0.
TtlReadsLikeGet ==
    [][\A c \in Callers :
          (Completes(c) /\ ret'[c].op \in {"getWithTtl", "getTtl"}) =>
              \A l \in ret'[c].looks :
                  /\ ret'[c].ok = l.found
                  /\ l.found => metrics'.hits = metrics.hits + 1
                  /\ ~l.found => metrics'.misses = metrics.misses + 1
                  /\ (l.found /\ l.exp = 0) => ret'[c].ttl = 0]_vars

\* C35: after any sequence of increments the Frequency holds at most
\* maxCounters counters, every counter it holds is at least 1, and Get of a
\* key it does not hold is 0.
FrequencyBounded ==
    /\ Cardinality(freq.keys) <= freq.maxCounters
    /\ \A k \in freq.keys : freq.counters[k] >= 1
    /\ \A k \in KeySpace \ freq.keys : FreqGet(freq, k) = 0
\* a decay has just halved a counter of 1 and a larger one
DecayedOnes ==
    /\ freq.decayCounter = 0
    /\ \E k \in freq.keys, j \in freq.keys : freq.counters[k] >= 2 /\ freq.counters[j] = 1

\* C37: an add of an id makes it live, also after a delete of that id: Get
\* of the index finds the id with the vector of the add.
AddMakesLive ==
    hnsw.out.op = "add" => HNSWGet(hnsw, hnsw.out.id) = <<hnsw.out.q, TRUE>>

\* C38: the count of the index (Len) is the number of nodes of the node
\* table that are not marked deleted, and is never negative.
LenIsLiveCount ==
    /\ hnsw.count = Cardinality(LiveNodes)
    /\ hnsw.count >= 0

\* C39: an add of an id the node table holds replaces the vector of that
\* node and nothing else: every neighbor set, every other node, the entry
\* point, maxLevel and count stay as they were.
AddOfPresentKeepsGraph ==
    [][\A id \in Ids :
          (left' # left /\ hnsw'.out.op = "add" /\ hnsw'.out.id = id /\ hnsw.nodes[id].in) =>
              /\ hnsw'.nodes[id] = [hnsw.nodes[id] EXCEPT !.Vector = hnsw'.out.q]
              /\ \A i \in Ids \ {id} : hnsw'.nodes[i] = hnsw.nodes[i]
              /\ hnsw'.entryPoint = hnsw.entryPoint
              /\ hnsw'.maxLevel = hnsw.maxLevel
              /\ hnsw'.count = hnsw.count]_vars
\* an add has just updated a node that has neighbors and was marked deleted
UpdatedLinkedNode ==
    /\ hnsw.out.op = "add"
    /\ hnsw.nodes[hnsw.out.id].deleted
    /\ hnsw.nodes[hnsw.out.id].neighbors[0] # {}

\* the nodes of the value table, and the keys a Get maps to the value id
ValueNodes ==
    LET NodesOf(T) == UNION {{T[i][j] : j \in 1..Len(T[i])} : i \in DOMAIN T}
    IN NodesOf(fc.ValueMap.table) \cup NodesOf(fc.ValueMap.oldTable)
KeysMappedTo(id) ==
    {k \in KeySpace : akGet(fc.KeyMap, k, now)[2] /\ akGet(fc.KeyMap, k, now)[1] = id}

\* C40: the reference count of every value the legacy FastCache stores is
\* the number of keys mapped to it (so a value leaves the value table with
\* its last key).
RefCountsMatchKeys ==
    \A node \in ValueNodes : node.refCount = Cardinality(KeysMappedTo(node.Key))

\* C36: in a single-shard vector store, when a wait has returned, Get finds
\* an id exactly when the index holds it.
StoreMatchesIndexAfterWait ==
    (pc["c1"] = "idle" /\ ret["c1"].op = "wait") =>
        \A id \in Ids : StoreGet(id) <=> vs.items[id].in

====
